---------------------------- MODULE Spec2Model ----------------------------
(***************************************************************************)
(* Spot It generator: the projective-plane card constructor                *)
(* (src/src/algorithm.js) and the image batch orchestrator with its        *)
(* process-wide rate limiter (src/unnamed/part_003, the openai.js module). *)
(*                                                                         *)
(* Two specifications share the variables:                                 *)
(*   SpecCards  generateCards(n) followed by the verifyCards pair loop     *)
(*   SpecOrch   generateAllImages sessions sharing the RateLimiter         *)
(***************************************************************************)
EXTENDS Integers, Sequences, FiniteSets, TLC

(***************************************************************************)
(* Bounds of the model                                                     *)
(***************************************************************************)
\* largest order handed to generateCards
MaxOrder == 7
\* generateAllImages calls that may overlap on the shared rateLimiter
NumSessions == 3
\* most descriptions handed to one generateAllImages call
MaxItems == 3
MaxCards == 3
\* The orchestrator's sizes, scaled down (the program's values in brackets):
\* chunk size [part_003:493, batchSize = 10]
batchSize == 2
\* RateLimiter.maxConcurrent [part_003:423, new RateLimiter(10, 100)]
maxConcurrent == 2
\* RateLimiter.maxPerMinute [part_003:423, new RateLimiter(10, 100)]
maxPerMinute == 3
\* generateAllImages calls of the application that are pending at a time
MaxGenerations == 1
\* the largest order of the decks the adapters are run on
MaxRenderOrder == 7
\* most symbols per card of a layout shuffled with arbitrary random values
MaxShuffled == 6

(***************************************************************************)
(* Program constants                                                       *)
(***************************************************************************)
\* JS undefined as an order: SYMBOL_COUNT_TO_ORDER[count] of an unmapped
\* count.  -1 stands for it; generateCards replaces it by its default
\* parameter (OrderParam).
Undefined == -1

\* the values of SYMBOL_COUNT_TO_ORDER
SupportedOrders == {2, 3, 5, 7}

\* the orders generateCards is called with: the supported ones, the
\* unsupported ones up to MaxOrder, and undefined
OrderInputs == (0..MaxOrder) \cup {Undefined}

\* part_003:432, generateImageWithRateLimit(description, index, maxRetries = 3)
maxRetries == 3

VARIABLES
    \* ---- plane constructor / verifier ----
    cpc,        \* "idle" | "verifying" | "verified"
    order,      \* the n of the last generateCards(n) call
    cards,      \* the array generateCards returned (sequence of sequences)
    outcome,    \* "none" | "returned" | "threw": how the last call ended
    vi, vj,     \* verifyCards loop indices i, j (0-based as in the code)
    verdict,    \* "none" | "true" | "false": verifyCards' return value
    \* ---- image batch orchestrator ----
    rateLimiter,   \* the global RateLimiter: activeCount, requestTimestamps
    windowAdmits,  \* observer: admissions of the trailing 60 seconds
    sess,          \* per generateAllImages call: its locals and its signal
    task,          \* per call and index: the item's async task
    cache,         \* localStorage spotit_image_<index>
    gpc,           \* one generateImageWithRateLimit call: where it is
    gattempt,      \*   its loop variable attempt
    gerror,        \*   lastError.message
    gwait,         \*   the length of the wait before the next attempt
    pollAttempt,   \* pollForGenerationComplete: its loop variable attempt
    pollWait,      \*   the length of the timer it is waiting for
    polls,         \*   the status requests it has sent
    lastResponse,  \*   the last answer to a status request
    version,       \* which generateAllLayouts is loaded: grid or radial
    layArgs,       \* grid: the arguments of the last call
    layouts,       \*   and what it returned
    prevArgs,      \*   the same of the call before it
    prevLayouts,
    rad,           \* radial: the call in progress, one push per step
    pure,          \* a caller of generateCards: the array of an earlier
                   \* call that it still holds and writes to, and the
                   \* array of a later call
    \* ---- the application (main.js) ----
    uiPc,          \* "loading" | "ready": whether init() has run
    state,         \* main.js state
    localStorage,  \* the item spotit_state
    imageCache,    \* the items spotit_image_<index>, as the page sees them
    elements,      \* the DOM elements the handlers read and write
    toasts,        \* the toasts the last handler showed
    descCall,      \* the API.generateDescriptions call awaited, if any
    genCalls,      \* the API.generateAllImages calls of this page load
    \* ---- a caller of API.generateDescriptions ----
    api,           \* its call: the arguments, the answer, the result
    \* ---- a caller of the preview, print and PDF adapters ----
    render,        \* the arguments it passes and what each adapter draws
    \* ---- generateAllLayouts (grid) with an arbitrary seededRandom ----
    shuf           \* the call in progress, one swap of seededShuffle per step

cardVars == <<cpc, order, cards, outcome, vi, vj, verdict>>
orchVars == <<rateLimiter, windowAdmits, sess, task, cache>>
pollVars == <<gpc, gattempt, gerror, gwait, pollAttempt, pollWait, polls,
              lastResponse>>
layoutVars == <<version, layArgs, layouts, prevArgs, prevLayouts, rad>>
uiVars == <<uiPc, state, localStorage, imageCache, elements, toasts,
            descCall, genCalls>>
vars == <<cpc, order, cards, outcome, vi, vj, verdict,
          rateLimiter, windowAdmits, sess, task, cache,
          gpc, gattempt, gerror, gwait, pollAttempt, pollWait, polls,
          lastResponse,
          version, layArgs, layouts, prevArgs, prevLayouts, rad, pure,
          uiPc, state, localStorage, imageCache, elements, toasts,
          descCall, genCalls, api, render, shuf>>
nonCardVars == <<orchVars, pollVars, layoutVars, pure, uiVars, api, render, shuf>>
nonOrchVars == <<cardVars, pollVars, layoutVars, pure, uiVars, api, render, shuf>>
nonPollVars == <<cardVars, orchVars, layoutVars, pure, uiVars, api, render, shuf>>
nonLayoutVars == <<cardVars, orchVars, pollVars, pure, uiVars, api, render, shuf>>
nonPureVars == <<cardVars, orchVars, pollVars, layoutVars, uiVars, api,
                 render, shuf>>
nonUiVars == <<cardVars, orchVars, pollVars, layoutVars, pure, api, render, shuf>>
nonApiVars == <<cardVars, orchVars, pollVars, layoutVars, pure, uiVars,
                render, shuf>>
nonRenderVars == <<cardVars, orchVars, pollVars, layoutVars, pure, uiVars,
                   api, shuf>>
nonShufVars == <<cardVars, orchVars, pollVars, layoutVars, pure, uiVars,
                 api, render>>

(***************************************************************************)
(* generateCards, algorithm.js 22-54                                       *)
(***************************************************************************)
\* algorithm.js 26-29: for (i = 0; i <= n; i++) firstCard.push(i)
\* (each loop operator yields what the loop pushes from index i onwards)
RECURSIVE FirstCardLoop(_, _)
FirstCardLoop(n, i) ==
    IF i <= n THEN <<i>> \o FirstCardLoop(n, i + 1) ELSE <<>>

\* algorithm.js 35-37: for (j = 0; j < n; j++) card.push(n + 1 + i*n + j)
RECURSIVE BlockCardLoop(_, _, _)
BlockCardLoop(n, i, j) ==
    IF j < n THEN <<n + 1 + i * n + j>> \o BlockCardLoop(n, i, j + 1) ELSE <<>>

\* algorithm.js 33-39: the n cards holding symbol 0, card = [0] first
RECURSIVE BlockLoop(_, _)
BlockLoop(n, i) ==
    IF i < n THEN << <<0>> \o BlockCardLoop(n, i, 0) >> \o BlockLoop(n, i + 1)
    ELSE <<>>

\* algorithm.js 46
SymbolIndexSwapped(n, i, j, k) == n + 1 + k * n + ((i + k + j) % n)
SymbolIndex(n, i, j, k) == n + 1 + k * n + ((i * k + j) % n)

\* algorithm.js 45-48: for (k = 0; k < n; k++) card.push(symbolIndex)
RECURSIVE PlaneCardLoop(_, _, _, _)
PlaneCardLoop(n, i, j, k) ==
    IF k < n
    THEN <<SymbolIndex(n, i, j, k)>> \o PlaneCardLoop(n, i, j, k + 1)
    ELSE <<>>

\* algorithm.js 43-50: inner loop over j, one card [i+1, ...] each
RECURSIVE PlaneLoopJ(_, _, _)
PlaneLoopJ(n, i, j) ==
    IF j < n
    THEN << <<i + 1>> \o PlaneCardLoop(n, i, j, 0) >> \o PlaneLoopJ(n, i, j + 1)
    ELSE <<>>

\* algorithm.js 42-51: outer loop over i
\* (the loops nested the other way round: j outer, i inner)
RECURSIVE PlaneColumn(_, _, _)
PlaneColumn(n, i, j) ==
    IF i < n
    THEN << <<i + 1>> \o PlaneCardLoop(n, i, j, 0) >> \o PlaneColumn(n, i + 1, j)
    ELSE <<>>
RECURSIVE PlaneLoopJOuter(_, _)
PlaneLoopJOuter(n, j) ==
    IF j < n THEN PlaneColumn(n, 0, j) \o PlaneLoopJOuter(n, j + 1) ELSE <<>>
RECURSIVE PlaneLoopI(_, _)
PlaneLoopI(n, i) ==
    IF i < n THEN PlaneLoopJ(n, i, 0) \o PlaneLoopI(n, i + 1) ELSE <<>>

\* algorithm.js 22: the default parameter, generateCards(n = 7)
DefaultOrder == 7
OrderParam(n) == IF n = Undefined THEN DefaultOrder ELSE n

\* one card too few: the second loop run with i < n - 1
GenerateCardsShortBlock(n) ==
    << FirstCardLoop(OrderParam(n), 0) >> \o BlockLoop(OrderParam(n), 1)
        \o PlaneLoopI(OrderParam(n), 0)
\* the array of an earlier call handed out again for the same n
GenerateCardsMemo(n) ==
    IF pure.phase = "held" /\ pure.heldOrder = n
    THEN pure.held
    ELSE << FirstCardLoop(OrderParam(n), 0) >> \o BlockLoop(OrderParam(n), 0)
            \o PlaneLoopI(OrderParam(n), 0)
\* algorithm.js 22-54
GenerateCards(n) ==
    << FirstCardLoop(OrderParam(n), 0) >> \o BlockLoop(OrderParam(n), 0)
        \o PlaneLoopI(OrderParam(n), 0)

\* algorithm.js 61-63
getTotalSymbols(n) == n * n + n + 1
\* algorithm.js 70-72
getSymbolsPerCard(n) == n + 1

(***************************************************************************)
(* verifyCards, algorithm.js 80-91, one pair per step                      *)
(***************************************************************************)
\* algorithm.js 83: cards[i].filter(s => cards[j].includes(s)), 0-based i, j
Includes(card, s) == \E p \in 1..Len(card) : card[p] = s
Shared(cs, i, j) == SelectSeq(cs[i + 1], LAMBDA s : Includes(cs[j + 1], s))

CardsInit ==
    /\ cpc = "idle"
    /\ order = Undefined
    /\ cards = <<>>
    /\ outcome = "none"
    /\ vi = 0
    /\ vj = 0
    /\ verdict = "none"

\* a caller runs generateCards(n) and hands the result to verifyCards
\* (i = 0, j = 1 after the loop initialisers of lines 81-82)
GenerateCall(n) ==
    /\ cpc \in {"idle", "verified"}
    /\ order' = n
    /\ cards' = GenerateCards(n)
    /\ outcome' = "returned"
    /\ cpc' = "verifying"
    /\ vi' = 0
    /\ vj' = 1
    /\ verdict' = "none"
    /\ UNCHANGED nonCardVars

\* algorithm.js 82-88, the pair (i, j) shares exactly one symbol: j++
VerifyPairOk ==
    /\ cpc = "verifying"
    /\ vi < Len(cards)
    /\ vj < Len(cards)
    /\ Len(Shared(cards, vi, vj)) = 1
    /\ vj' = vj + 1
    /\ UNCHANGED <<cpc, order, cards, outcome, vi, verdict>>
    /\ UNCHANGED nonCardVars

\* algorithm.js 84-87: shared.length !== 1, return false
VerifyPairBad ==
    /\ cpc = "verifying"
    /\ vi < Len(cards)
    /\ vj < Len(cards)
    /\ Len(Shared(cards, vi, vj)) # 1
    /\ verdict' = "false"
    /\ cpc' = "verified"
    /\ UNCHANGED <<order, cards, outcome, vi, vj>>
    /\ UNCHANGED nonCardVars

\* algorithm.js 81-82: inner loop exhausted, i++ and j = i + 1
VerifyNextRow ==
    /\ cpc = "verifying"
    /\ vi < Len(cards)
    /\ vj >= Len(cards)
    /\ vi' = vi + 1
    /\ vj' = vi + 2
    /\ UNCHANGED <<cpc, order, cards, outcome, verdict>>
    /\ UNCHANGED nonCardVars

\* algorithm.js 90: outer loop exhausted, return true
VerifyReturnTrue ==
    /\ cpc = "verifying"
    /\ vi >= Len(cards)
    /\ verdict' = "true"
    /\ cpc' = "verified"
    /\ UNCHANGED <<order, cards, outcome, vi, vj>>
    /\ UNCHANGED nonCardVars

CardsNext ==
    \/ \E n \in OrderInputs : GenerateCall(n)
    \/ VerifyPairOk
    \/ VerifyPairBad
    \/ VerifyNextRow
    \/ VerifyReturnTrue

(***************************************************************************)
(* The rate limiter, part_003 377-423                                      *)
(*                                                                         *)
(* Time is abstracted to what the limiter observes of it.  An entry of     *)
(* requestTimestamps is "fresh" while ts > Date.now() - 60000 and "old"    *)
(* afterwards; the action WindowExpire is the passage of time that makes   *)
(* the oldest fresh entry old.  setTimeout waits are control positions     *)
(* that a later step leaves; no wait has a length relative to the window.  *)
(***************************************************************************)
Sessions == 1..NumSessions
Items == 0..(MaxItems - 1)

\* null, and the image data the provider returns for call s, index i on
\* its (0-based) attempt a
Null == <<>>
Img(s, i, a) == <<s, i, a>>

Min(a, b) == IF a < b THEN a ELSE b

\* part_003 406-411
cleanupTimestampsKeepsAll(g) == g
cleanupTimestamps(g) ==
    [g EXCEPT !.requestTimestamps = SelectSeq(@, LAMBDA ts : ts = "fresh")]

\* part_003 401-404 (the value returned; the limiter is cleaned up as well)
isRateLimitedOffByOne(g) ==
    Len(cleanupTimestamps(g).requestTimestamps) > maxPerMinute
isRateLimited(g) ==
    Len(cleanupTimestamps(g).requestTimestamps) >= maxPerMinute

\* part_003 388: the while condition
AcquireBlockedRateOnly(g) == isRateLimited(g)
AcquireBlocked(g) ==
    g.activeCount >= maxConcurrent \/ isRateLimited(g)

\* part_003 388: the limiter after one evaluation of the while condition;
\* || does not call isRateLimited when the first operand is true
AfterWhileTest(g) ==
    IF g.activeCount >= maxConcurrent THEN g ELSE cleanupTimestamps(g)

\* part_003 393-394
AdmitUntimed(g) == [g EXCEPT !.activeCount = @ + 1]
Admit(g) ==
    [activeCount |-> g.activeCount + 1,
     requestTimestamps |-> Append(g.requestTimestamps, "fresh")]

\* part_003 397-399
releaseSkipped(g) == g
release(g) == [g EXCEPT !.activeCount = @ - 1]

\* part_003 437-440: the task after acquire was entered or resumed:
\* admitted, generateImage is called; otherwise it waits at line 389
AfterAcquire(t, admitted) ==
    IF admitted THEN [t EXCEPT !.pc = "call", !.calls = @ + 1]
    ELSE [t EXCEPT !.pc = "gate"]

\* part_003 386-395, from the call up to the first suspension or the return
AcquireEnter(g) ==
    IF AcquireBlocked(g)
    THEN [g |-> AfterWhileTest(g), admitted |-> FALSE]
    ELSE [g |-> Admit(AfterWhileTest(g)), admitted |-> TRUE]

\* part_003 389-395, from the timer of line 389 firing
AcquireWake(g) == AcquireEnter(cleanupTimestamps(g))

\* part_003 413-419 (its effect on the limiter)
getStatus(g) == cleanupTimestamps(g)

(***************************************************************************)
(* generateAllImages and generateImageWithRateLimit, part_003 432-573      *)
(***************************************************************************)
\* item task: pc is
\*   "todo"     not reached by the loop of line 495
\*   "skipped"  the map callback returned at line 520
\*   "gate"     suspended in acquire, line 389
\*   "call"     generateImage in progress, line 440
\*   "backoff"  suspended at line 462 or 465
\*   "ok" / "failed"   the map callback finished at line 540 / 555
\* calls, fails: the provider's count of the generateImage calls for this
\* item and of those it rejected;
\* done: the onImageComplete invocations for this index;
\* quota: setItem threw in the cacheImage call for this item
InitTask ==
    [pc |-> "todo", attempt |-> 0, lastError |-> "none", waitMs |-> 0,
     calls |-> 0, fails |-> 0, done |-> <<>>, quota |-> FALSE]

\* call: status is "idle" (not called), "running" (awaiting line 560),
\* "pause" (line 564), "resolved" (line 572), "cancelled" (line 497);
\* reported, total: the first two arguments of the last onProgress call
InitSess ==
    [status |-> "idle", n |-> 0, i |-> 0, aborted |-> FALSE, completed |-> 0,
     images |-> <<>>, failed |-> <<>>, reported |-> 0, total |-> 0]

\* part_003 488-490: the locals of a call with n descriptions,
\* images = new Array(n).fill(null)
NewCall(n) ==
    [InitSess EXCEPT !.n = n, !.images = [x \in 0..(n - 1) |-> Null]]

\* part_003 505-513, 534-539, 550-555: onProgress(current, descriptions.length, ..)
onProgressStale(se, current) == [se EXCEPT !.total = se.n]
onProgress(se, current) == [se EXCEPT !.reported = current, !.total = se.n]

\* part_003 530-532, 547-549: onImageComplete(index, imageData, error)
onImageCompleteOnSuccessOnly(t, image, error) ==
    IF error = "none"
    THEN [t EXCEPT !.done = Append(@, [image |-> image, error |-> error])]
    ELSE t
onImageComplete(t, image, error) ==
    [t EXCEPT !.done = Append(@, [image |-> image, error |-> error])]

\* part_003 501
BatchEnd(se) == Min(se.i + batchSize, se.n)

\* the promise of the map callback is settled
SettledOrWaiting(t) == t.pc \in {"ok", "failed", "skipped", "backoff"}
Settled(t) == t.pc \in {"ok", "failed", "skipped"}

\* part_003 560-572: when the last promise of the chunk settles, Promise.all
\* resolves and the loop body goes on to the pause or the function returns
AfterSettleAny(se, ts) ==
    IF \E j \in se.i..(BatchEnd(se) - 1) : Settled(ts[j])
    THEN [se EXCEPT !.status = IF BatchEnd(se) < se.n THEN "pause"
                                                    ELSE "resolved"]
    ELSE se
AfterSettle(se, ts) ==
    IF \A j \in se.i..(BatchEnd(se) - 1) : Settled(ts[j])
    THEN [se EXCEPT !.status = IF BatchEnd(se) < se.n THEN "pause"
                                                    ELSE "resolved"]
    ELSE se

\* part_003 516-524: the map callbacks of one chunk, run in index order up
\* to their first suspension; aborted is signal.aborted, w the observer
RECURSIVE DispatchBatch(_, _, _, _, _, _)
DispatchBatch(g, w, ts, j, end, aborted) ==
    IF j >= end THEN [g |-> g, w |-> w, tasks |-> ts]
    ELSE IF aborted
    THEN DispatchBatch(g, w, [ts EXCEPT ![j].pc = "skipped"], j + 1, end, aborted)
    ELSE LET r == AcquireEnter(g)
         IN  DispatchBatch(r.g,
                           IF r.admitted THEN w + 1 ELSE w,
                           [ts EXCEPT ![j] = AfterAcquire(@, r.admitted)],
                           j + 1, end, aborted)

\* part_003 495-560: one iteration of the chunk loop with i = se.i, up to
\* the await of line 560
ChunkBodyNoAbortCheck(s, se, ts) ==
    LET g1 == getStatus(rateLimiter)
        se1 == onProgress([se EXCEPT !.status = "running"], se.completed)
        d == DispatchBatch(g1, windowAdmits, ts, se.i, BatchEnd(se), FALSE)
    IN  /\ rateLimiter' = d.g
        /\ windowAdmits' = d.w
        /\ task' = [task EXCEPT ![s] = d.tasks]
        /\ sess' = [sess EXCEPT ![s] = AfterSettle(se1, d.tasks)]
ChunkBody(s, se, ts) ==
    IF se.aborted
    THEN /\ sess' = [sess EXCEPT ![s] = [se EXCEPT !.status = "cancelled"]]
         /\ task' = [task EXCEPT ![s] = ts]
         /\ UNCHANGED <<rateLimiter, windowAdmits>>
    ELSE LET g1 == getStatus(rateLimiter)
             se1 == onProgress([se EXCEPT !.status = "running"], se.completed)
             d == DispatchBatch(g1, windowAdmits, ts, se.i, BatchEnd(se), se.aborted)
         IN  /\ rateLimiter' = d.g
             /\ windowAdmits' = d.w
             /\ task' = [task EXCEPT ![s] = d.tasks]
             /\ sess' = [sess EXCEPT ![s] = AfterSettle(se1, d.tasks)]

OrchInit ==
    /\ rateLimiter = [activeCount |-> 0, requestTimestamps |-> <<>>]
    /\ windowAdmits = 0
    /\ sess = [s \in Sessions |-> InitSess]
    /\ task = [s \in Sessions |-> [x \in Items |-> InitTask]]
    /\ cache = [x \in Items |-> Null]

\* part_003 482-560: generateAllImages(descriptions, onProgress,
\* onImageComplete, signal) with n descriptions and a fresh signal, up to
\* the first await.  Calls are numbered in the order they are made.
Start(s, n) ==
    /\ sess[s].status = "idle"
    /\ \A r \in Sessions : r < s => sess[r].status # "idle"
    /\ ChunkBody(s, NewCall(n), task[s])
    /\ UNCHANGED cache
    /\ UNCHANGED nonOrchVars

\* part_001 1225-1229 / 907-908: abortController.abort() while the call
\* is awaiting its chunk or its pause
Abort(s) ==
    /\ sess[s].status \in {"running", "pause"}
    /\ ~sess[s].aborted
    /\ sess' = [sess EXCEPT ![s].aborted = TRUE]
    /\ UNCHANGED <<rateLimiter, windowAdmits, task, cache>>
    /\ UNCHANGED nonOrchVars

\* part_003 389-395: the 500 ms timer of a task waiting in acquire fires
GateWake(s, x) ==
    /\ task[s][x].pc = "gate"
    /\ LET r == AcquireWake(rateLimiter)
       IN  /\ rateLimiter' = r.g
           /\ windowAdmits' = IF r.admitted THEN windowAdmits + 1 ELSE windowAdmits
           /\ task' = [task EXCEPT ![s][x] = AfterAcquire(@, r.admitted)]
    /\ UNCHANGED <<sess, cache>>
    /\ UNCHANGED nonOrchVars

\* part_003 580-587: cacheImage; quota is whether setItem throws
cacheImageKeepsOthers(c, x, img, quota) ==
    IF quota THEN c ELSE [c EXCEPT ![x] = img]
cacheImage(c, x, img, quota) ==
    IF quota THEN [y \in Items |-> Null] ELSE [c EXCEPT ![x] = img]

\* part_003 581-586: whether the exception of setItem leaves cacheImage;
\* the try block of line 581 catches it
cacheImageRethrows(quota) == quota
cacheImageThrows(quota) == FALSE

\* part_003 541-556: the catch block of the map callback for index x,
\* error class cls: [se, t] afterwards
ItemCatch(se, t, x, cls) ==
    LET se1 == [se EXCEPT !.failed = Append(@, x), !.completed = @ + 1]
    IN  [se |-> onProgress(se1, se1.completed),
         t  |-> onImageComplete([t EXCEPT !.pc = "failed"], Null, cls)]

\* part_003 525-540: the map callback for index x after
\* generateImageWithRateLimit returned img: [se, t] afterwards
ItemThen(se, t, x, img, quota) ==
    LET se1 == [se EXCEPT !.images[x] = img, !.completed = @ + 1]
        t1 == [t EXCEPT !.quota = quota]
    IN  IF cacheImageThrows(quota)
        THEN ItemCatch(se1, t1, x, "other")
        ELSE [se |-> onProgress(se1, se1.completed),
              t  |-> onImageComplete([t1 EXCEPT !.pc = "ok"], img, "none")]

\* part_003 440-444 and 525-540: generateImage resolves; release, then the
\* map callback stores, caches and reports the image
ProviderOk(s, x, quota) ==
    /\ task[s][x].pc = "call"
    /\ LET t == [task[s][x] EXCEPT !.lastError = "none"]
           r == ItemThen(sess[s], t, x, Img(s, x, t.attempt), quota)
           ts1 == [task[s] EXCEPT ![x] = r.t]
       IN  /\ rateLimiter' = getStatus(release(rateLimiter))
           /\ task' = [task EXCEPT ![s] = ts1]
           /\ sess' = [sess EXCEPT ![s] = AfterSettle(r.se, ts1)]
           /\ cache' = cacheImage(cache, x, Img(s, x, t.attempt), quota)
    /\ UNCHANGED windowAdmits
    /\ UNCHANGED nonOrchVars

\* part_003 456 / 465: the wait before the next attempt
WaitTimeFromZero(cls, attempt) == IF cls = "rate" THEN attempt * 10000 ELSE 2000
WaitTime(cls, attempt) == IF cls = "rate" THEN (attempt + 1) * 10000 ELSE 2000

\* part_003 454 / 463: is there another attempt
HasRetryOneMore(attempt) == attempt < maxRetries
HasRetryNever(attempt) == FALSE
HasRetry(attempt) == attempt < maxRetries - 1

\* part_003 440-470 and 541-556: generateImage rejects with an error of
\* class cls ("rate": the message has 'rate', '429' or 'too many');
\* release, then either the backoff wait or, after the last attempt, the
\* throw of line 470 and the catch of the map callback
ProviderFail(s, x, cls) ==
    /\ task[s][x].pc = "call"
    /\ LET t == task[s][x]
           t0 == [t EXCEPT !.lastError = cls, !.fails = @ + 1]
       IN  IF HasRetry(t.attempt)
           THEN /\ task' = [task EXCEPT ![s][x] =
                               [t0 EXCEPT !.pc = "backoff",
                                          !.waitMs = WaitTime(cls, t.attempt)]]
                /\ UNCHANGED sess
           ELSE LET r == ItemCatch(sess[s], t0, x, cls)
                    ts1 == [task[s] EXCEPT ![x] = r.t]
                IN  /\ task' = [task EXCEPT ![s] = ts1]
                    /\ sess' = [sess EXCEPT ![s] = AfterSettle(r.se, ts1)]
    /\ rateLimiter' = release(rateLimiter)
    /\ UNCHANGED <<windowAdmits, cache>>
    /\ UNCHANGED nonOrchVars

\* part_003 435-437, 462/465: the backoff timer fires; attempt++ and the
\* next iteration calls acquire
BackoffWakeUngated(s, x) ==
    /\ task[s][x].pc = "backoff"
    /\ task' = [task EXCEPT ![s][x] =
                   AfterAcquire([@ EXCEPT !.attempt = @ + 1, !.waitMs = 0],
                                TRUE)]
    /\ UNCHANGED <<rateLimiter, windowAdmits, sess, cache>>
    /\ UNCHANGED nonOrchVars
BackoffWake(s, x) ==
    /\ task[s][x].pc = "backoff"
    /\ LET r == AcquireEnter(rateLimiter)
       IN  /\ rateLimiter' = r.g
           /\ windowAdmits' = IF r.admitted THEN windowAdmits + 1 ELSE windowAdmits
           /\ task' = [task EXCEPT ![s][x] =
                          AfterAcquire([@ EXCEPT !.attempt = @ + 1, !.waitMs = 0],
                                       r.admitted)]
    /\ UNCHANGED <<sess, cache>>
    /\ UNCHANGED nonOrchVars

\* part_003 564, 495: the 1 s pause between chunks ends; i += batchSize
\* and the next iteration of the chunk loop runs
PauseElapsed(s) ==
    /\ sess[s].status = "pause"
    /\ ChunkBody(s, [sess[s] EXCEPT !.i = @ + batchSize], task[s])
    /\ UNCHANGED cache
    /\ UNCHANGED nonOrchVars

\* part_003 407-410: time passes until the oldest admission of the
\* trailing minute is 60000 ms old
RECURSIVE ExpireOldest(_)
ExpireOldest(tss) ==
    IF tss = <<>> THEN <<>>
    ELSE IF Head(tss) = "fresh" THEN <<"old">> \o Tail(tss)
    ELSE <<Head(tss)>> \o ExpireOldest(Tail(tss))

WindowExpire ==
    /\ windowAdmits > 0
    /\ windowAdmits' = windowAdmits - 1
    /\ rateLimiter' = [rateLimiter EXCEPT !.requestTimestamps = ExpireOldest(@)]
    /\ UNCHANGED <<sess, task, cache>>
    /\ UNCHANGED nonOrchVars

\* the steps of the tasks of the calls S, started with a number of
\* descriptions in N, the provider failing with an error of a class in E,
\* setItem throwing in Q
OrchStep(S, N, E, Q) ==
    \/ \E s \in S, n \in N : Start(s, n)
    \/ \E s \in S, x \in Items : GateWake(s, x)
    \/ \E s \in S, x \in Items, quota \in Q : ProviderOk(s, x, quota)
    \/ \E s \in S, x \in Items, cls \in E : ProviderFail(s, x, cls)
    \/ \E s \in S, x \in Items : BackoffWake(s, x)
    \/ WindowExpire

\* one call of up to MaxItems descriptions and its signal
OrchNext ==
    \/ OrchStep({1}, 1..MaxItems, {"rate", "other"}, BOOLEAN)
    \/ Abort(1)
    \/ PauseElapsed(1)

\* overlapping calls on the shared limiter, one description each: the loop
\* of line 495 runs once, so the pause of line 564 is not reached and the
\* signal is not read after the call has started
SharedNext == OrchStep(Sessions, {1}, {"other"}, {FALSE})

(***************************************************************************)
(* generateImage and pollForGenerationComplete, part_003 241-353, under    *)
(* the retry loop of generateImageWithRateLimit, for one item that has the *)
(* limiter to itself (acquire returns at once)                             *)
(***************************************************************************)
\* part_003 314, 316
maxAttempts == 60
pollInterval == 2000

\* the messages of the errors thrown at lines 276, 348 and 352
CreateFailedMessage == <<"F", "a", "i", "l", "e", "d", " ", "t", "o", " ", "c", "r", "e", "a", "t", "e", " ", "g", "e", "n", "e", "r", "a", "t", "i", "o", "n">>
GenerationFailedMessage == <<"I", "m", "a", "g", "e", " ", "g", "e", "n", "e", "r", "a", "t", "i", "o", "n", " ", "f", "a", "i", "l", "e", "d">>
TimedOutMessage == <<"I", "m", "a", "g", "e", " ", "g", "e", "n", "e", "r", "a", "t", "i", "o", "n", " ", "t", "i", "m", "e", "d", " ", "o", "u", "t">>

\* part_003 274-277: error.error?.message || error.message of the body of
\* a create request that was refused, which the provider words
RateLimitMessage == <<"r", "a", "t", "e", " ", "l", "i", "m", "i", "t">>
Status429Message == <<"H", "T", "T", "P", " ", "4", "2", "9">>
TooManyMessage == <<"t", "o", "o", " ", "m", "a", "n", "y", " ", "r", "e", "q", "u", "e", "s", "t", "s">>
CapitalisedMessage == <<"R", "a", "t", "e", " ", "L", "i", "m", "i", "t">>
CreateMessages ==
    {CreateFailedMessage, RateLimitMessage, Status429Message, TooManyMessage,
     CapitalisedMessage}

\* String.prototype.includes
MessageIncludes(msg, pat) ==
    \E k \in 0..(Len(msg) - Len(pat)) : SubSeq(msg, k + 1, k + Len(pat)) = pat

\* part_003 449-452
isRateLimitError(msg) ==
    \/ MessageIncludes(msg, <<"r", "a", "t", "e">>)
    \/ MessageIncludes(msg, <<"4", "2", "9">>)
    \/ MessageIncludes(msg, <<"t", "o", "o", " ", "m", "a", "n", "y">>)

ErrorClass(msg) == IF isRateLimitError(msg) THEN "rate" ELSE "other"

\* the answers to a status request: HTTP error, a generation that is
\* neither complete nor failed, COMPLETE with and without images, FAILED
Responses == {"notok", "pending", "complete", "empty", "failed"}

\* part_003 318: the loop test
PollMoreOffByOne(attempt) == attempt <= maxAttempts
PollMore(attempt) == attempt < maxAttempts

PollInit ==
    /\ gpc = "idle"
    /\ gattempt = 0
    /\ gerror = <<>>
    /\ gwait = 0
    /\ pollAttempt = 0
    /\ pollWait = 0
    /\ polls = 0
    /\ lastResponse = "none"

\* part_003 435-440, 250-271: generateImageWithRateLimit is called; acquire
\* returns and generateImage sends the create request
GStart ==
    /\ gpc = "idle"
    /\ gpc' = "create"
    /\ gattempt' = 0
    /\ UNCHANGED <<gerror, gwait, pollAttempt, pollWait, polls, lastResponse>>
    /\ UNCHANGED nonPollVars

\* part_003 442-470: release, then the catch block with error.message = msg
\* and what follows it: the wait before the next attempt or the throw of
\* line 470
GCatch(msg) ==
    /\ gerror' = msg
    /\ IF HasRetry(gattempt)
       THEN /\ gpc' = "backoff"
            /\ gwait' = WaitTime(ErrorClass(msg), gattempt)
       ELSE /\ gpc' = "thrown"
            /\ gwait' = 0
    /\ UNCHANGED gattempt

\* part_003 280-291, 316-319: the create request returned a generation id;
\* pollForGenerationComplete starts and waits for its first timer
CreateOk ==
    /\ gpc = "create"
    /\ pollAttempt' = 0
    /\ polls' = 0
    /\ lastResponse' = "none"
    /\ IF PollMore(0)
       THEN /\ gpc' = "sleep"
            /\ pollWait' = pollInterval
            /\ UNCHANGED <<gattempt, gerror, gwait>>
       ELSE /\ GCatch(TimedOutMessage)
            /\ UNCHANGED pollWait
    /\ UNCHANGED nonPollVars

\* part_003 273-278: the create request was answered with an error whose
\* body gives the message msg
CreateFail(msg) ==
    /\ gpc = "create"
    /\ GCatch(msg)
    /\ UNCHANGED <<pollAttempt, pollWait, polls, lastResponse>>
    /\ UNCHANGED nonPollVars

\* part_003 319-330: the timer of line 319 fires and the status request
\* is sent
PollTimer ==
    /\ gpc = "sleep"
    /\ gpc' = "fetch"
    /\ pollWait' = 0
    /\ polls' = polls + 1
    /\ UNCHANGED <<gattempt, gerror, gwait, pollAttempt, lastResponse>>
    /\ UNCHANGED nonPollVars

\* part_003 332-352: the status request is answered with r
PollResponse(r) ==
    /\ gpc = "fetch"
    /\ lastResponse' = r
    /\ IF r = "complete"
       THEN \* 339-344, 294-296: the url is returned, the image fetched
            /\ gpc' = "returned"
            /\ UNCHANGED <<gattempt, gerror, gwait, pollAttempt, pollWait>>
       ELSE IF r = "failed"
       THEN \* 347-349
            /\ GCatch(GenerationFailedMessage)
            /\ UNCHANGED <<pollAttempt, pollWait>>
       ELSE \* 332-334 continue, or the end of the loop body: attempt++
            /\ pollAttempt' = pollAttempt + 1
            /\ IF PollMore(pollAttempt + 1)
               THEN /\ gpc' = "sleep"
                    /\ pollWait' = pollInterval
                    /\ UNCHANGED <<gattempt, gerror, gwait>>
               ELSE \* 352
                    /\ GCatch(TimedOutMessage)
                    /\ UNCHANGED pollWait
    /\ UNCHANGED polls
    /\ UNCHANGED nonPollVars

\* part_003 462/465, 435-440: the wait before the next attempt ends;
\* attempt++, acquire, and generateImage sends a new create request
GBackoffWake ==
    /\ gpc = "backoff"
    /\ gpc' = "create"
    /\ gattempt' = gattempt + 1
    /\ gwait' = 0
    /\ UNCHANGED <<gerror, pollAttempt, pollWait, polls, lastResponse>>
    /\ UNCHANGED nonPollVars

PollNext ==
    \/ GStart
    \/ CreateOk
    \/ \E msg \in CreateMessages : CreateFail(msg)
    \/ PollTimer
    \/ \E r \in Responses : PollResponse(r)
    \/ GBackoffWake

(***************************************************************************)
(* generateAllLayouts: the grid version, algorithm.js 101-168, and the     *)
(* radial version, part_002 101-152                                        *)
(*                                                                         *)
(* Coordinates and sizes are exact rationals, held as integers in units of *)
(* 1/Unit pixel; every quotient below is exact in these units.             *)
(***************************************************************************)
Unit == 1200000

\* the arguments a caller passes
LayoutCounts == 0..MaxCards
LayoutK == 1..(MaxOrder + 1)
CardSizes == {100, 200}
NoArgs == [numCards |-> 0, symbolsPerCard |-> 0, cardSize |-> 0]

\* algorithm.js 105-108: seededRandom(seed) = frac(sin(seed * 9999) * 10000)
\* in millionths, rounded down, for seed = 137 * c + i: row c + 1, column i
RandomTable ==
    <<<<869563, 684962, 9053, 353964, 402121, 75636, 371190, 932139, 424865, 308247, 637274, 98105, 660890, 54938, 432872, 844886>>,
      <<717342, 469516, 753682, 656551, 151121, 902811, 514511, 856747, 901658, 189949, 204647, 347468, 217264, 517053, 471121, 359196>>,
      <<441803, 68581, 572173, 992886, 532443, 532851, 153114, 854482, 415103, 523967, 185312, 733544, 49344, 200611, 383019, 153158>>,
      <<630363, 855480, 908107, 756298, 16809, 774015, 963399, 329983, 875918, 307946, 477061, 92005, 251938, 804369, 703389, 281316>>,
      <<857476, 354605, 218016, 379741, 895788, 399554, 356590, 101645, 299269, 430933, 997806, 445240, 127123, 270304, 463826, 716600>>,
      <<303021, 918060, 159699, 641039, 182323, 108315, 160121, 673043, 605433, 740721, 509110, 2922, 957710, 463343, 525461, 159245>>,
      <<259430, 152420, 190815, 995306, 373577, 713760, 176831, 838831, 956955, 261229, 152417, 629022, 701003, 409660, 494112, 828898>>,
      <<600934, 956497, 468003, 138926, 901576, 50856, 111986, 877129, 112598, 80119, 602049, 920645, 363146, 982672, 887126, 258298>>,
      <<684357, 555640, 802688, 791403, 926291, 37367, 483128, 498195, 157287, 627610, 404376, 113043, 37672, 970140, 830573, 902416>>,
      <<11393, 162487, 641073, 111200, 643824, 486205, 216498, 749567, 89586, 147539, 792065, 166182, 463775, 541523, 884635, 378011>>,
      <<497311, 641670, 942332, 945951, 287840, 296870, 272616, 173789, 905613, 912987, 522558, 819331, 553549, 674048, 953305, 843122>>,
      <<786456, 322111, 260, 771154, 506317, 366404, 661883, 377586, 718034, 710749, 591708, 48385, 737489, 421056, 215523, 159871>>,
      <<63060, 927474, 463311, 588228, 666578, 827738, 273086, 150494, 656145, 375697, 925575, 827399, 213803, 72457, 705978, 109115>>,
      <<282850, 216560, 918313, 105098, 39763, 115802, 85753, 203440, 411254, 436296, 88149, 349958, 360322, 369544, 188773, 424693>>,
      <<262786, 888465, 370164, 821835, 918471, 206311, 809490, 41127, 482072, 528106, 11861, 525916, 422974, 513513, 529403, 231340>>,
      <<144178, 445003, 777242, 977199, 326027, 519208, 173589, 560537, 4853, 416284, 917221, 887569, 308000, 342329, 171101, 697135>>,
      <<493691, 668746, 201907, 781730, 286153, 877264, 136201, 903617, 81290, 974964, 79903, 591208, 976167, 374546, 154141, 16189>>,
      <<960796, 1944, 505926, 771303, 918015, 323388, 467137, 418490, 230910, 35428, 490822, 32419, 165436, 4616, 23916, 981740>>,
      <<616765, 855665, 492210, 235974, 863603, 424810, 74641, 256398, 817972, 595287, 509581, 724905, 850233, 595825, 852332, 472595>>,
      <<512808, 914020, 59364, 879235, 148071, 312477, 937612, 831044, 615242, 987881, 397154, 111389, 131872, 65021, 87032, 172721>>,
      <<487760, 378287, 554822, 289005, 246243, 456237, 396415, 146847, 837094, 250362, 120657, 578864, 344674, 733546, 711431, 223687>>,
      <<898895, 66023, 990681, 42890, 704576, 769838, 621075, 85751, 156300, 583464, 708029, 848321, 327568, 597980, 594175, 511471>>,
      <<190905, 542062, 171951, 85280, 796323, 770516, 51525, 446343, 860037, 214063, 946069, 44998, 344249, 311538, 263201, 627961>>,
      <<584835, 858487, 547521, 352546, 41734, 503488, 823533, 767945, 888051, 207718, 238046, 541643, 172050, 322068, 492917, 277884>>,
      <<300202, 969727, 129133, 349155, 598358, 466043, 984607, 311957, 159444, 924923, 972346, 1484, 34304, 104433, 555169, 101997>>,
      <<68396, 586534, 482542, 113656, 340300, 139602, 177243, 32449, 900784, 448429, 587943, 551490, 722290, 198283, 280880, 320750>>,
      <<193152, 690591, 852201, 816199, 72093, 871625, 837039, 952196, 438378, 741547, 786428, 730077, 649586, 476273, 460144, 293008>>,
      <<537514, 502066, 235187, 914072, 998256, 125115, 172454, 827186, 355403, 836734, 973383, 713958, 251455, 149073, 687638, 62591>>,
      <<653551, 761930, 255488, 238762, 561277, 756401, 402478, 753721, 350155, 162200, 594870, 886641, 737517, 755468, 599292, 738131>>,
      <<518166, 375449, 920601, 711205, 926534, 738634, 452153, 560706, 839098, 433361, 394906, 988988, 274451, 297792, 922577, 443344>>,
      <<819207, 787355, 490552, 228936, 210, 225260, 711771, 318971, 996276, 351414, 631421, 849138, 499432, 841386, 643643, 116015>>,
      <<998354, 677987, 687016, 889442, 338002, 443115, 518459, 114116, 134933, 704310, 909665, 32062, 343081, 823994, 759173, 438589>>,
      <<954924, 36519, 336353, 609981, 881569, 851441, 907309, 467419, 963664, 771005, 99155, 655084, 217599, 904950, 87699, 392025>>,
      <<989125, 536257, 939385, 22765, 311324, 472840, 499932, 908229, 29446, 209399, 264813, 73429, 191111, 241853, 654046, 273922>>,
      <<299366, 513522, 840912, 246788, 220222, 398320, 903908, 877409, 402667, 440265, 644121, 156909, 541803, 187735, 319710, 888285>>,
      <<381498, 197480, 491638, 420588, 57757, 379421, 784764, 948054, 103196, 204494, 27042, 734478, 296038, 714813, 739247, 663428>>,
      <<706757, 648358, 563707, 598871, 306916, 970014, 895079, 721905, 282285, 409917, 630108, 370166, 404590, 305392, 828225, 971759>>,
      <<134780, 312463, 941724, 412553, 59800, 555454, 803405, 474872, 680391, 563578, 97084, 200778, 691631, 305147, 775144, 100802>>,
      <<904539, 51125, 289399, 409958, 433926, 203959, 8731, 302277, 993401, 417167, 488899, 340008, 591234, 541232, 4105, 733543>>,
      <<581235, 990427, 554957, 952890, 208347, 108229, 999835, 76830, 733772, 249309, 978958, 409274, 757699, 614773, 484613, 443378>>,
      <<415661, 978759, 334412, 634844, 550826, 407320, 935288, 397305, 221708, 817256, 187973, 279306, 821872, 361592, 928379, 652370>>,
      <<640625, 235240, 662104, 73424, 423698, 781023, 972921, 613569, 449628, 283466, 433498, 586080, 233029, 336369, 246054, 847985>>,
      <<705211, 914998, 700621, 118665, 492849, 327944, 190121, 220523, 358414, 546728, 295604, 136632, 313461, 352931, 758840, 726223>>,
      <<972912, 960804, 719947, 994489, 301743, 993492, 938818, 501882, 692831, 867735, 272488, 836097, 921279, 437076, 844605, 540855>>,
      <<854719, 964671, 839387, 457888, 874933, 443669, 664156, 328008, 118371, 88798, 192399, 714394, 321867, 169460, 936114, 31740>>,
      <<650452, 402608, 43610, 754138, 102366, 565037, 389245, 756723, 493834, 899395, 991385, 154473, 129062, 976573, 782758, 670713>>,
      <<954894, 372082, 592119, 254204, 18735, 251386, 747187, 791126, 620154, 276702, 860326, 144235, 679213, 858187, 454956, 570557>>,
      <<843048, 808463, 662852, 836862, 798797, 184872, 820276, 225513, 896240, 551099, 350484, 256172, 52762, 2021, 596906, 964999>>,
      <<488638, 776033, 325218, 688899, 463353, 297221, 637295, 94761, 887820, 277275, 909887, 666190, 724012, 1428, 691777, 439764>>,
      <<101491, 632144, 222883, 503302, 900942, 764908, 843612, 879407, 149847, 963505, 152633, 483773, 118689, 622934, 78153, 7991>>,
      <<591956, 762185, 111770, 911863, 642065, 246724, 101026, 486056, 477276, 969354, 46303, 581692, 339849, 504734, 189667, 114337>>,
      <<567238, 336889, 461448, 436657, 546378, 606096, 442139, 795789, 335590, 888401, 146634, 584036, 584220, 111582, 19821, 186199>>,
      <<970128, 391004, 25046, 96328, 827842, 220460, 171734, 969048, 784194, 513601, 423455, 2239, 151048, 852491, 391746, 638635>>,
      <<869109, 6021, 480677, 911894, 470952, 536011, 489963, 488768, 856317, 190884, 614975, 385171, 508137, 224669, 316326, 857029>>,
      <<589442, 840405, 295299, 292826, 698334, 411994, 63241, 870783, 933235, 107888, 56883, 505481, 185654, 932278, 164790, 758998>>,
      <<199703, 209325, 715159, 672434, 907543, 152788, 996020, 546686, 248996, 783469, 873890, 450130, 721568, 4835, 531529, 40463>>,
      <<651181, 63483, 260701, 893985, 645253, 502738, 836736, 745169, 763099, 219405, 677897, 990939, 110704, 208771, 284376, 581993>>>>
seededRandom(seed) == RandomTable[(seed \div 137) + 1][seed % 137]

\* algorithm.js 114: Math.floor(seededRandom(seed + i) * (i + 1))
SwapIndex(seed, i) == (seededRandom(seed + i) * (i + 1)) \div 1000000

\* algorithm.js 111-118: seededShuffle, the loop from i down to 1 on the
\* copy shuffled (0-based i, j; positions i + 1, j + 1 of the sequence)
\* algorithm.js 115: [shuffled[i], shuffled[j]] = [shuffled[j], shuffled[i]]
SwapOverwrites(shuffled, i, j) == [shuffled EXCEPT ![i + 1] = shuffled[j + 1]]
Swap(shuffled, i, j) ==
    [shuffled EXCEPT ![i + 1] = shuffled[j + 1], ![j + 1] = shuffled[i + 1]]

RECURSIVE ShuffleLoop(_, _, _)
ShuffleLoop(shuffled, seed, i) ==
    IF i > 0
    THEN ShuffleLoop(Swap(shuffled, i, SwapIndex(seed, i)), seed, i - 1)
    ELSE shuffled

seededShuffle(array, seed) == ShuffleLoop(array, seed, Len(array) - 1)

\* algorithm.js 121-127
getGridDimensions(n) ==
    IF n <= 2 THEN [cols |-> 2, rows |-> 1]
    ELSE IF n <= 4 THEN [cols |-> 2, rows |-> 2]
    ELSE IF n <= 6 THEN [cols |-> 3, rows |-> 2]
    ELSE IF n <= 9 THEN [cols |-> 3, rows |-> 3]
    ELSE [cols |-> 4, rows |-> (n + 3) \div 4]

\* algorithm.js 130: padding = cardSize * 0.08
Padding(cardSize) == cardSize * ((Unit * 8) \div 100)

\* algorithm.js 131-135: cellWidth, cellHeight
CellWidth(k, cardSize) ==
    (cardSize * Unit - 2 * Padding(cardSize)) \div getGridDimensions(k).cols
CellHeight(k, cardSize) ==
    (cardSize * Unit - 2 * Padding(cardSize)) \div getGridDimensions(k).rows

\* algorithm.js 138: symbolSize = Math.min(cellWidth, cellHeight) * 0.85
SymbolSize(k, cardSize) ==
    (Min(CellWidth(k, cardSize), CellHeight(k, cardSize)) \div 100) * 85

\* algorithm.js 147-148: cellX = padding + col * cellWidth (cellY alike)
CellOriginNextCell(padding, idx, cell) == padding + (idx + 1) * cell
CellOrigin(padding, idx, cell) == padding + idx * cell

\* algorithm.js 143-157: the placement pushed for 0-based i
BasePosition(i, k, cardSize) ==
    LET col == i % getGridDimensions(k).cols
        row == i \div getGridDimensions(k).cols
        cellWidth == CellWidth(k, cardSize)
        cellHeight == CellHeight(k, cardSize)
        symbolSize == SymbolSize(k, cardSize)
        cellX == CellOrigin(Padding(cardSize), col, cellWidth)
        cellY == CellOrigin(Padding(cardSize), row, cellHeight)
    IN  [x |-> cellX + (cellWidth - symbolSize) \div 2,
         y |-> cellY + (cellHeight - symbolSize) \div 2,
         size |-> symbolSize,
         rotation |-> 0]

\* algorithm.js 141-158: basePositions
BasePositionsWholeGrid(k, cardSize) ==
    [p \in 1..(getGridDimensions(k).cols * getGridDimensions(k).rows) |->
        BasePosition(p - 1, k, cardSize)]
BasePositions(k, cardSize) ==
    [p \in 1..k |-> BasePosition(p - 1, k, cardSize)]

\* algorithm.js 163: the seed of the shuffle of card cardIndex
ShuffleSeedCarriedOver(cardIndex) == cardIndex * 137 + Len(layouts)
ShuffleSeed(cardIndex) == cardIndex * 137

\* algorithm.js 101-168
generateAllLayouts(numCards, symbolsPerCard, cardSize) ==
    LET basePositions == BasePositions(symbolsPerCard, cardSize)
    IN  [c \in 1..numCards |-> seededShuffle(basePositions, ShuffleSeed(c - 1))]

\* part_002 112: sizeCategories, in hundredths
sizeCategories == <<42, 38, 34, 30, 26, 22>>

\* a value of seededRandom in the radial version (part_002 105-108): 0 and
\* the bound 1 that it stays below (every coordinate is linear in each
\* random value, so its extremes are at these ends)
RandomEnds == {0, 1}
\* a value of Math.cos / Math.sin (part_002 141-142): the bounds
TrigValues == {-1, 1}

\* part_002 133-134: size = cardSize * baseSizeRatio * sizeVariation with
\* sizeVariation = 1 + (rn * 0.15 - 0.075), baseSizeRatio = q / 100
RadialSize(cardSize, q, rn) == cardSize * q * (925 + 150 * rn) * 12

\* part_002 117, 137-139: dist = baseRadius * distVariation *
\* (1.2 - sizeInfluence * 0.4) with baseRadius = cardSize * 0.28,
\* distVariation = rn * 0.25 + 0.6, sizeInfluence = baseSizeRatio / 0.42
RadialDist(cardSize, q, rn) == cardSize * (60 + 25 * rn) * (504 - 4 * q) * 8

\* part_002 116, 141-145: the placement pushed (without its rotation,
\* seededRandom(seed + 3) * 360, which no coordinate depends on)
RadialPosition(cardSize, q, rnSize, rnDist, cosA, sinA) ==
    [x |-> cardSize * (Unit \div 2) + cosA * RadialDist(cardSize, q, rnDist)
              - RadialSize(cardSize, q, rnSize) \div 2,
     y |-> cardSize * (Unit \div 2) + sinA * RadialDist(cardSize, q, rnDist)
              - RadialSize(cardSize, q, rnSize) \div 2,
     size |-> RadialSize(cardSize, q, rnSize)]

NoPosition == [x |-> 0, y |-> 0, size |-> 0]
InitRad ==
    [pc |-> "idle", args |-> NoArgs, cardIndex |-> 0, i |-> 0,
     pos |-> NoPosition, positions |-> 0, pushed |-> 0, lastLen |-> 0]

LayoutInit ==
    /\ version = "none"
    /\ layArgs = NoArgs
    /\ layouts = <<>>
    /\ prevArgs = NoArgs
    /\ prevLayouts = <<>>
    /\ rad = InitRad

\* algorithm.js 101-168: a call of the grid version; the caller keeps the
\* result of the call before
GridCall(numCards, k, cardSize) ==
    /\ version \in {"none", "grid"}
    /\ version' = "grid"
    /\ prevArgs' = layArgs
    /\ prevLayouts' = layouts
    /\ layArgs' = [numCards |-> numCards, symbolsPerCard |-> k, cardSize |-> cardSize]
    /\ layouts' = generateAllLayouts(numCards, k, cardSize)
    /\ UNCHANGED rad
    /\ UNCHANGED nonLayoutVars

\* part_002 101-114: a call of the radial version, up to the loop test
RadialCall(numCards, k, cardSize) ==
    /\ version \in {"none", "radial"}
    /\ rad.pc \in {"idle", "returned"}
    /\ version' = "radial"
    /\ rad' = [InitRad EXCEPT !.pc = "loop",
                 !.args = [numCards |-> numCards, symbolsPerCard |-> k,
                           cardSize |-> cardSize]]
    /\ UNCHANGED <<layArgs, layouts, prevArgs, prevLayouts>>
    /\ UNCHANGED nonLayoutVars

\* part_002 126-145: the body of the inner loop up to positions.push; q is
\* shuffledSizes[i % 6], the others what seededRandom, cos and sin return
RadialPush(q, rnSize, rnDist, cosA, sinA) ==
    /\ rad.pc = "loop"
    /\ rad.cardIndex < rad.args.numCards
    /\ rad.i < rad.args.symbolsPerCard
    /\ rad' = [rad EXCEPT
                 !.pc = "pushed",
                 !.pos = RadialPosition(rad.args.cardSize, q, rnSize, rnDist,
                                        cosA, sinA),
                 !.positions = @ + 1]
    /\ UNCHANGED <<version, layArgs, layouts, prevArgs, prevLayouts>>
    /\ UNCHANGED nonLayoutVars

\* part_002 126, 146: the iteration ends, its constants with it; i++
RadialStep ==
    /\ rad.pc = "pushed"
    /\ rad' = [rad EXCEPT !.pc = "loop", !.pos = NoPosition, !.i = @ + 1]
    /\ UNCHANGED <<version, layArgs, layouts, prevArgs, prevLayouts>>
    /\ UNCHANGED nonLayoutVars

\* part_002 148, 114: layouts.push(positions); cardIndex++
RadialNextCard ==
    /\ rad.pc = "loop"
    /\ rad.cardIndex < rad.args.numCards
    /\ rad.i >= rad.args.symbolsPerCard
    /\ rad' = [rad EXCEPT !.lastLen = rad.positions, !.pushed = @ + 1,
                          !.cardIndex = @ + 1, !.i = 0, !.positions = 0]
    /\ UNCHANGED <<version, layArgs, layouts, prevArgs, prevLayouts>>
    /\ UNCHANGED nonLayoutVars

\* part_002 151
RadialReturn ==
    /\ rad.pc = "loop"
    /\ rad.cardIndex >= rad.args.numCards
    /\ rad' = [rad EXCEPT !.pc = "returned"]
    /\ UNCHANGED <<version, layArgs, layouts, prevArgs, prevLayouts>>
    /\ UNCHANGED nonLayoutVars

LayoutNext ==
    \/ \E numCards \in LayoutCounts, k \in LayoutK, cardSize \in CardSizes :
          GridCall(numCards, k, cardSize)
    \/ \E numCards \in 1..MaxCards, k \in {3, 4, 6, 8} :
          RadialCall(numCards, k, 200)
    \/ \E q \in {sizeCategories[p] : p \in 1..Len(sizeCategories)},
          rnSize \in RandomEnds, rnDist \in RandomEnds,
          cosA \in TrigValues, sinA \in TrigValues :
          RadialPush(q, rnSize, rnDist, cosA, sinA)
    \/ RadialStep
    \/ RadialNextCard
    \/ RadialReturn

(***************************************************************************)
(* A caller of generateCards (algorithm.js 22-54) that keeps the array of  *)
(* one call, writes to it, and calls again                                 *)
(***************************************************************************)
\* what the caller writes into the array it holds
WrittenValues == {0, 99}
WrittenCards == 1..2
WrittenPositions == 1..2

PureInit ==
    pure = [phase |-> "none", heldOrder |-> Undefined, held |-> <<>>,
            returned |-> <<>>, againOrder |-> Undefined, again |-> <<>>]

\* the caller calls generateCards(n) and keeps the array; returned is the
\* array as it was when the call returned
FirstCall(n) ==
    /\ pure.phase = "none"
    /\ pure' = [pure EXCEPT !.phase = "held", !.heldOrder = n,
                            !.held = GenerateCards(n),
                            !.returned = GenerateCards(n)]
    /\ UNCHANGED nonPureVars

\* the caller assigns held[c][p] = v (0-based c - 1, p - 1)
MutateHeld(c, p, v) ==
    /\ pure.phase = "held"
    /\ c <= Len(pure.held)
    /\ p <= Len(pure.held[c])
    /\ pure' = [pure EXCEPT !.held[c][p] = v]
    /\ UNCHANGED nonPureVars

\* the caller empties the array it holds: held.length = 0
TruncateHeld ==
    /\ pure.phase = "held"
    /\ pure.held # <<>>
    /\ pure' = [pure EXCEPT !.held = <<>>]
    /\ UNCHANGED nonPureVars

\* a later call generateCards(n)
SecondCall(n) ==
    /\ pure.phase = "held"
    /\ pure' = [pure EXCEPT !.phase = "again", !.againOrder = n,
                            !.again = GenerateCards(n)]
    /\ UNCHANGED nonPureVars

PureNext ==
    \/ \E n \in OrderInputs : FirstCall(n)
    \/ \E c \in WrittenCards, p \in WrittenPositions, v \in WrittenValues :
          MutateHeld(c, p, v)
    \/ TruncateHeld
    \/ \E n \in OrderInputs : SecondCall(n)

(***************************************************************************)
(* The application, main.js (part_001 625-1480), and the description       *)
(* request of openai.js (part_003 144-232)                                 *)
(*                                                                         *)
(* A handler runs to completion; an await is a control position that a     *)
(* later step leaves.  A description is a number, 0 the empty string.      *)
(* The helpers below map the world a handler sees (state, the saved item,  *)
(* the image cache, the elements, the toasts it has shown) to the world    *)
(* it leaves.                                                              *)
(***************************************************************************)
\* part_001 634-639: the keys of SYMBOL_COUNT_TO_ORDER, and the lookup
SymbolCounts == {7, 13, 31, 57}
SYMBOL_COUNT_TO_ORDER(count) ==
    CASE count = 7 -> 2
      [] count = 13 -> 3
      [] count = 31 -> 5
      [] count = 57 -> 7
      [] OTHER -> Undefined

\* part_001 650: abortController: null, else the call it belongs to
NoController == 0

\* part_001 642-651
InitState ==
    [currentStep |-> 1, symbolCount |-> 57, order |-> 7,
     descriptions |-> <<>>, images |-> <<>>, cards |-> <<>>,
     layouts |-> <<>>, abortController |-> NoController]

\* localStorage.getItem(STORAGE_KEY) === null
NoItem == [present |-> FALSE]

\* the elements the handlers read and write, as the page is loaded
InitElements ==
    [symbolCountSelect |-> 57,
     inputs |-> <<>>,
     btnGenerateDescriptionsDisabled |-> FALSE,
     symbolsProgressHidden |-> TRUE,
     btnGenerateImagesDisabled |-> TRUE,
     btnContinueToPrintHidden |-> TRUE]

\* part_001 1464: showToast(message, type)
showToast(w, message, type) ==
    [w EXCEPT !.toasts = Append(@, [message |-> message, type |-> type])]

\* state.images.filter(img => img).length > 0
SomeImage(images) == \E i \in 1..Len(images) : images[i] # Null

\* part_001 662-674
saveStateForgetsImages(w) ==
    [w EXCEPT !.localStorage =
        [present |-> TRUE,
         currentStep |-> w.state.currentStep,
         symbolCount |-> w.state.symbolCount,
         order |-> w.state.order,
         descriptions |-> w.state.descriptions,
         cards |-> w.state.cards,
         layouts |-> w.state.layouts,
         hasImages |-> FALSE]]
saveState(w) ==
    [w EXCEPT !.localStorage =
        [present |-> TRUE,
         currentStep |-> w.state.currentStep,
         symbolCount |-> w.state.symbolCount,
         order |-> w.state.order,
         descriptions |-> w.state.descriptions,
         cards |-> w.state.cards,
         layouts |-> w.state.layouts,
         hasImages |-> SomeImage(w.state.images)]]

\* part_001 710-712
clearSavedState(w) == [w EXCEPT !.localStorage = NoItem]

\* part_003 603-609: getAllCachedImages(count)
getAllCachedImages(c, count) == [i \in 1..count |-> c[i - 1]]

\* part_003 615-619: clearImageCache()
CacheSlots == 0..56
clearImageCache(c) == [x \in CacheSlots |-> Null]

\* value || fallback for a number: undefined and 0 are falsy
OrElse(value, fallback) ==
    IF value = Undefined \/ value = 0 THEN fallback ELSE value

\* part_001 680-705: loadState; restored is its return value
loadState(w) ==
    IF ~w.localStorage.present
    THEN [world |-> w, restored |-> FALSE]
    ELSE LET savedState == w.localStorage
             symbolCount == OrElse(savedState.symbolCount, 57)
             st == [w.state EXCEPT
                      !.currentStep = OrElse(savedState.currentStep, 1),
                      !.symbolCount = symbolCount,
                      !.order = OrElse(savedState.order, 7),
                      !.descriptions = savedState.descriptions,
                      !.cards = savedState.cards,
                      !.layouts = savedState.layouts,
                      !.images = IF savedState.hasImages
                                 THEN getAllCachedImages(w.imageCache,
                                                         symbolCount)
                                 ELSE @]
         IN  [world |-> [w EXCEPT !.state = st],
              restored |-> st.currentStep > 1 \/ Len(st.descriptions) > 0]

\* part_001 1413-1459: goToStep(step)
goToStep(w, step) == saveState([w EXCEPT !.state.currentStep = step])

\* part_001 983-985: symbolsPerCard, and what the two calls return
CardConfiguration(n) ==
    LET cs == GenerateCards(n)
    IN  [cards |-> cs, layouts |-> generateAllLayouts(Len(cs), n + 1, 200)]
\* the same for the orders of SYMBOL_COUNT_TO_ORDER, evaluated once
CardConfigurations == [n \in SupportedOrders |-> CardConfiguration(n)]

\* part_001 982-987
generateCardConfigurationsKeepsCards(w) ==
    [w EXCEPT !.state.layouts =
        generateAllLayouts(Len(w.state.cards), w.state.order + 1, 200)]
generateCardConfigurations(w) ==
    LET made == IF w.state.order \in SupportedOrders
                THEN CardConfigurations[w.state.order]
                ELSE CardConfiguration(w.state.order)
    IN  [w EXCEPT !.state.cards = made.cards,
                  !.state.layouts = made.layouts]

\* part_001 992-1010: one empty input per symbol
initializeSymbolsGrid(w) ==
    [w EXCEPT !.elements.inputs = [i \in 1..w.state.symbolCount |-> 0]]

\* part_001 1109-1119
checkSymbolsComplete(w) ==
    LET inputs == w.elements.inputs
        filledCount == Cardinality({i \in 1..Len(inputs) : inputs[i] # 0})
    IN  [w EXCEPT !.elements.btnGenerateImagesDisabled =
                      filledCount < w.state.symbolCount,
                  !.state.descriptions = inputs]

\* part_001 737-740: the inputs that exist take the restored descriptions
RestoreInputs(w) ==
    [w EXCEPT !.elements.inputs =
        [i \in 1..Len(@) |->
            IF i <= Len(w.state.descriptions)
            THEN w.state.descriptions[i] ELSE @[i]]]

\* part_001 1087-1092: the inputs that exist take the descriptions that are
\* not empty
FillInputs(w, descriptions) ==
    [w EXCEPT !.elements.inputs =
        [i \in 1..Len(@) |->
            IF i <= Len(descriptions) /\ descriptions[i] # 0
            THEN descriptions[i] ELSE @[i]]]

\* part_003 144-232: generateDescriptions(theme, count).  key: an API key is
\* stored; response: what the provider answered, content.parse telling what
\* JSON.parse makes of the text (it fails, or gives a value that is no
\* array, or the array content.items)
KeyNotSetMessage == "OpenAI API key not set"
RequestFailedMessage == "Failed to generate descriptions"
ParseFailedMessage == "Failed to parse AI response as JSON"
ExpectedCountMessage == "Expected count descriptions"
Threw(message) == [kind |-> "threw", message |-> message, value |-> <<>>]
Returned(value) == [kind |-> "returned", message |-> "", value |-> value]
\* descriptions.slice(0, count)
slice(array, end) == SubSeq(array, 1, Min(end, Len(array)))
EnoughAtLeastOne(descriptions, count) == Len(descriptions) >= 1
Enough(descriptions, count) == ~(Len(descriptions) < count)
generateDescriptions(key, response, count) ==
    IF ~key THEN Threw(KeyNotSetMessage)
    ELSE IF ~response.ok THEN Threw(RequestFailedMessage)
    ELSE IF response.content.parse = "fails" THEN Threw(ParseFailedMessage)
    ELSE IF response.content.parse # "array"
              \/ ~Enough(response.content.items, count)
         THEN Threw(ExpectedCountMessage)
    ELSE Returned(slice(response.content.items, count))

\* what the provider can answer to a request for count descriptions
Variants == {1, 2}
Described(m, v) == [i \in 1..m |-> 100 * v + i]
Contents(count) ==
    {[parse |-> "fails", items |-> <<>>], [parse |-> "object", items |-> <<>>]}
    \cup {[parse |-> "array", items |-> Described(m, v)] :
             m \in {count - 1, count, count + 1} \cap Nat, v \in Variants}
ProviderResponses(count) ==
    {[ok |-> FALSE, content |-> [parse |-> "fails", items |-> <<>>]]}
    \cup {[ok |-> TRUE, content |-> c] : c \in Contents(count)}
\* the answers the application is run against: a refusal, an array that is
\* one entry short, an array of count entries
Answers == {"refused", "short", "full"}
Answer(kind, count) ==
    CASE kind = "refused" ->
            [ok |-> FALSE, content |-> [parse |-> "fails", items |-> <<>>]]
      [] kind = "short" ->
            [ok |-> TRUE, content |-> [parse |-> "array",
                                       items |-> Described(count - 1, 1)]]
      [] kind = "full" ->
            [ok |-> TRUE, content |-> [parse |-> "array",
                                       items |-> Described(count, 1)]]

NoResult == [kind |-> "none", message |-> "", value |-> <<>>]
NoResponse == [ok |-> FALSE, content |-> [parse |-> "none", items |-> <<>>]]
\* a caller of generateDescriptions: idle, then the call with its arguments
\* and the answer it will get, then what the call gave
IdleApi ==
    [pc |-> "idle", key |-> FALSE, count |-> 0, response |-> NoResponse,
     result |-> NoResult]
DescCounts == 0..MaxItems

IdleDescCall == [pc |-> "idle", count |-> 0]

\* the generateAllImages calls of one page load
Generations == 1..(MaxGenerations + 1)
UnusedCall == [status |-> "unused", aborted |-> FALSE, total |-> 0]
\* a call that has settled: how it ended; its signal and its arguments are
\* of no effect any more
SettledCall(how) == [status |-> how, aborted |-> FALSE, total |-> 0]
\* controller.abort(): the signal of a pending call is set
abort(calls, g) ==
    IF g # NoController /\ calls[g].status = "pending"
    THEN [calls EXCEPT ![g].aborted = TRUE]
    ELSE calls

World ==
    [state |-> state, localStorage |-> localStorage,
     imageCache |-> imageCache, elements |-> elements, toasts |-> <<>>]

\* what a handler leaves behind
Leave(w) ==
    /\ state' = w.state
    /\ localStorage' = w.localStorage
    /\ imageCache' = w.imageCache
    /\ elements' = w.elements
    /\ toasts' = w.toasts

UiInit ==
    /\ uiPc = "loading"
    /\ state = InitState
    /\ localStorage = NoItem
    /\ imageCache = [x \in CacheSlots |-> Null]
    /\ elements = InitElements
    /\ toasts = <<>>
    /\ descCall = IdleDescCall
    /\ genCalls = [g \in Generations |-> UnusedCall]

\* part_001 1479, 717-775: the page is loaded and init() runs
init(w0) ==
    LET loaded == loadState(w0)
        w1 == loaded.world
    IN  IF loaded.restored
        THEN LET w2 == initializeSymbolsGrid(
                          [w1 EXCEPT !.elements.symbolCountSelect =
                                         w1.state.symbolCount])
                 w3 == IF Len(w2.state.descriptions) > 0
                       THEN checkSymbolsComplete(RestoreInputs(w2))
                       ELSE w2
                 w4 == goToStep(generateCardConfigurations(w3),
                                w3.state.currentStep)
                 w5 == IF w4.state.currentStep = 3
                          /\ SomeImage(w4.state.images)
                       THEN [w4 EXCEPT
                               !.elements.btnContinueToPrintHidden = FALSE]
                       ELSE w4
             IN  showToast(w5, "Progress restored", "success")
        ELSE generateCardConfigurations(initializeSymbolsGrid(w1))

DOMContentLoaded ==
    /\ uiPc = "loading"
    /\ uiPc' = "ready"
    /\ Leave(init(World))
    /\ UNCHANGED <<descCall, genCalls>>
    /\ UNCHANGED nonUiVars

\* the user reloads the page: the script starts over on what localStorage
\* holds; the calls that were awaited are gone with the old page
Reload ==
    /\ uiPc = "ready"
    /\ uiPc' = "loading"
    /\ state' = InitState
    /\ elements' = InitElements
    /\ toasts' = <<>>
    /\ descCall' = IdleDescCall
    /\ genCalls' = [g \in Generations |-> UnusedCall]
    /\ UNCHANGED <<localStorage, imageCache>>
    /\ UNCHANGED nonUiVars

\* part_001 1043-1066: saveApiKeys, valid telling whether both keys pass
saveApiKeys(valid) ==
    /\ uiPc = "ready"
    /\ state.currentStep = 1
    /\ Leave(IF valid
             THEN goToStep(showToast(World, "API keys saved!", "success"), 2)
             ELSE showToast(World, "Please enter your API key", "error"))
    /\ UNCHANGED <<uiPc, descCall, genCalls>>
    /\ UNCHANGED nonUiVars

\* part_001 942-959: the select has changed to count
handleSymbolCountChange(count) ==
    /\ uiPc = "ready"
    /\ state.currentStep = 2
    /\ count # elements.symbolCountSelect
    /\ LET w1 == [World EXCEPT
                    !.elements.symbolCountSelect = count,
                    !.state.symbolCount = count,
                    !.state.order = SYMBOL_COUNT_TO_ORDER(count),
                    !.state.descriptions = <<>>]
           w2 == generateCardConfigurations(initializeSymbolsGrid(w1))
       IN  Leave([w2 EXCEPT !.elements.btnGenerateImagesDisabled = TRUE])
    /\ UNCHANGED <<uiPc, descCall, genCalls>>
    /\ UNCHANGED nonUiVars

\* part_001 1009: the user edits the first input (value 0 empties it)
InputEvent(value) ==
    /\ uiPc = "ready"
    /\ state.currentStep = 2
    /\ Len(elements.inputs) > 0
    /\ Leave(checkSymbolsComplete(
                [World EXCEPT !.elements.inputs[1] = value]))
    /\ UNCHANGED <<uiPc, descCall, genCalls>>
    /\ UNCHANGED nonUiVars

\* part_001 870
btnBackToApi ==
    /\ uiPc = "ready"
    /\ state.currentStep = 2
    /\ Leave(goToStep(World, 1))
    /\ UNCHANGED <<uiPc, descCall, genCalls>>
    /\ UNCHANGED nonUiVars

\* part_001 1071-1076: the click, up to the await
generateDescriptionsClick ==
    /\ uiPc = "ready"
    /\ state.currentStep = 2
    /\ ~elements.btnGenerateDescriptionsDisabled
    /\ descCall.pc = "idle"
    /\ descCall' = [pc |-> "awaiting", count |-> state.symbolCount]
    /\ Leave([World EXCEPT
                !.elements.symbolsProgressHidden = FALSE,
                !.elements.btnGenerateDescriptionsDisabled = TRUE])
    /\ UNCHANGED <<uiPc, genCalls>>
    /\ UNCHANGED nonUiVars

\* part_001 1078-1103: the awaited call settles with result
AfterDescriptionsNoFinally(w, result) ==
    IF result.kind = "returned"
    THEN [saveState(checkSymbolsComplete(showToast(
              FillInputs([w EXCEPT !.state.descriptions = result.value],
                         result.value),
              "Generated symbol descriptions!", "success")))
          EXCEPT !.elements.symbolsProgressHidden = TRUE,
                 !.elements.btnGenerateDescriptionsDisabled = FALSE]
    ELSE showToast(w, result.message, "error")
AfterDescriptions(w, result) ==
    LET w1 == IF result.kind = "returned"
              THEN saveState(checkSymbolsComplete(showToast(
                       FillInputs([w EXCEPT !.state.descriptions =
                                                result.value],
                                  result.value),
                       "Generated symbol descriptions!", "success")))
              ELSE showToast(w, result.message, "error")
    IN  [w1 EXCEPT !.elements.symbolsProgressHidden = TRUE,
                   !.elements.btnGenerateDescriptionsDisabled = FALSE]

generateDescriptionsSettle(key, response) ==
    /\ uiPc = "ready"
    /\ descCall.pc = "awaiting"
    /\ LET result == generateDescriptions(key, response, descCall.count)
       IN  /\ descCall' = [descCall EXCEPT !.pc = "idle"]
           /\ Leave(AfterDescriptions(World, result))
    /\ UNCHANGED <<uiPc, genCalls>>
    /\ UNCHANGED nonUiVars

\* part_001 1124-1148: startImageGeneration up to the await; g is the call
\* it starts
startImageGeneration(g) ==
    /\ uiPc = "ready"
    /\ state.currentStep = 2
    /\ ~elements.btnGenerateImagesDisabled
    /\ LET w1 == [World EXCEPT !.state.descriptions = elements.inputs]
           emptyCount == Cardinality({i \in 1..Len(elements.inputs) :
                                         elements.inputs[i] = 0})
       IN  IF emptyCount > 0
           THEN /\ Leave(showToast(w1, "Please fill in all empty descriptions",
                                   "warning"))
                /\ UNCHANGED genCalls
           ELSE /\ genCalls[g].status # "pending"
                /\ \A h \in Generations : h < g => genCalls[h].status = "pending"
                /\ genCalls' = [genCalls EXCEPT
                                  ![g] = [status |-> "pending",
                                          aborted |-> FALSE,
                                          total |-> Len(elements.inputs)]]
                /\ Leave([goToStep(w1, 3) EXCEPT
                            !.elements.btnContinueToPrintHidden = TRUE,
                            !.state.abortController = g])
    /\ UNCHANGED <<uiPc, descCall>>
    /\ UNCHANGED nonUiVars

\* part_003 525-528: what call g leaves in images and in the cache when the
\* items from rest on have produced nothing
ImagesOf(g, total, rest) ==
    [i \in 1..total |-> IF i >= rest THEN Null ELSE Img(g, i - 1, 0)]
CacheAfter(c, g, total, rest) ==
    [x \in CacheSlots |->
        IF x + 1 < rest /\ x < total THEN Img(g, x, 0) ELSE c[x]]

\* part_001 1151-1174: the awaited generateAllImages call resolves
AfterImages(w, images) ==
    LET successCount == Cardinality({i \in 1..Len(images) : images[i] # Null})
        w1 == [w EXCEPT !.state.images = images]
        w2 == IF successCount < w1.state.symbolCount
              THEN showToast(w1, "Some failed.", "warning")
              ELSE showToast(w1, "All images generated!", "success")
    IN  saveState([w2 EXCEPT !.elements.btnContinueToPrintHidden = FALSE])

imagesResolve(g, rest) ==
    /\ uiPc = "ready"
    /\ genCalls[g].status = "pending"
    /\ genCalls' = [genCalls EXCEPT ![g] = SettledCall("resolved")]
    /\ Leave(AfterImages(
                [World EXCEPT !.imageCache =
                    CacheAfter(@, g, genCalls[g].total, rest)],
                ImagesOf(g, genCalls[g].total, rest)))
    /\ UNCHANGED <<uiPc, descCall>>
    /\ UNCHANGED nonUiVars

\* part_001 1176-1183: the awaited call rejects with 'Generation cancelled'
\* (part_003 496-498), the items before rest having finished
AfterCancelledShowsError(w) ==
    goToStep(showToast(w, "Generation cancelled", "error"), 2)
AfterCancelled(w) ==
    goToStep(showToast(w, "Generation cancelled", "warning"), 2)

imagesCancelled(g, rest) ==
    /\ uiPc = "ready"
    /\ genCalls[g].status = "pending"
    /\ genCalls[g].aborted
    /\ genCalls' = [genCalls EXCEPT ![g] = SettledCall("cancelled")]
    /\ Leave(AfterCancelled(
                [World EXCEPT !.imageCache =
                    CacheAfter(@, g, genCalls[g].total, rest)]))
    /\ UNCHANGED <<uiPc, descCall>>
    /\ UNCHANGED nonUiVars

\* part_001 1225-1229
cancelGeneration ==
    /\ uiPc = "ready"
    /\ state.currentStep = 3
    /\ state.abortController # NoController
    /\ genCalls' = abort(genCalls, state.abortController)
    /\ Leave(World)
    /\ UNCHANGED <<uiPc, descCall>>
    /\ UNCHANGED nonUiVars

\* part_001 932-936
continueToPrint ==
    /\ uiPc = "ready"
    /\ state.currentStep = 3
    /\ ~elements.btnContinueToPrintHidden
    /\ Leave(goToStep(World, 4))
    /\ UNCHANGED <<uiPc, descCall, genCalls>>
    /\ UNCHANGED nonUiVars

\* part_001 1374-1408
startOver ==
    /\ uiPc = "ready"
    /\ state.currentStep = 4
    /\ LET w1 == [World EXCEPT
                    !.state.currentStep = 1,
                    !.state.descriptions = <<>>,
                    !.state.images = <<>>,
                    !.state.cards = <<>>,
                    !.state.layouts = <<>>,
                    !.imageCache = clearImageCache(@),
                    !.elements.inputs = [i \in 1..Len(@) |-> 0],
                    !.elements.btnGenerateImagesDisabled = TRUE]
           w2 == generateCardConfigurations(clearSavedState(w1))
       IN  Leave(showToast(goToStep(w2, 1), "Ready to create new cards!",
                           "success"))
    /\ UNCHANGED <<uiPc, descCall, genCalls>>
    /\ UNCHANGED nonUiVars

\* part_001 888-927: a click on the indicator of step stepNum
navigateToStep(w, step) ==
    LET leaving == w.state.currentStep = 3
                   /\ w.state.abortController # NoController
        w1 == goToStep([w EXCEPT !.state.abortController =
                                     IF leaving THEN NoController ELSE @],
                       step)
    IN  IF step = 3 /\ SomeImage(w1.state.images)
        THEN [w1 EXCEPT !.elements.btnContinueToPrintHidden = FALSE]
        ELSE w1

\* part_001 888-898: handleStepClick; only the steps before the current
\* one can be clicked
StepClickedAllowsCurrent(w, stepNum) ==
    IF stepNum > w.state.currentStep THEN w ELSE navigateToStep(w, stepNum)
StepClicked(w, stepNum) ==
    IF stepNum >= w.state.currentStep THEN w ELSE navigateToStep(w, stepNum)

handleStepClick(stepNum) ==
    /\ uiPc = "ready"
    /\ genCalls' = IF StepClicked(World, stepNum) # World
                      /\ state.currentStep = 3
                   THEN abort(genCalls, state.abortController)
                   ELSE genCalls
    /\ Leave(StepClicked(World, stepNum))
    /\ UNCHANGED <<uiPc, descCall>>
    /\ UNCHANGED nonUiVars

\* the steps of the application when generateAllImages calls are pending
\* in the slots Calls, the user chooses among the symbol counts Counts and
\* types the values Values into the first input, the description provider
\* gives the answers AnswerKinds, and a resolving generateAllImages call
\* has produced the images before one of Rests
UiStep(Calls, Counts, Values, AnswerKinds, Rests) ==
    \/ DOMContentLoaded
    \/ Reload
    \/ \E valid \in BOOLEAN : saveApiKeys(valid)
    \/ \E count \in Counts : handleSymbolCountChange(count)
    \/ \E value \in Values : InputEvent(value)
    \/ btnBackToApi
    \/ generateDescriptionsClick
    \/ \E kind \in AnswerKinds :
          generateDescriptionsSettle(TRUE, Answer(kind, descCall.count))
    \/ \E g \in Calls : startImageGeneration(g)
    \/ \E g \in Calls, rest \in Rests : imagesResolve(g, rest)
    \/ \E g \in Calls : imagesCancelled(g, 1)
    \/ cancelGeneration
    \/ continueToPrint
    \/ startOver
    \/ \E stepNum \in 1..4 : handleStepClick(stepNum)

UiNext == UiStep(1..MaxGenerations, {7, 57}, {0}, {"refused", "full"}, {2})

\* the same with one more generateAllImages call pending: the user starts
\* a generation while the one cancelled before has not settled
UiOverlapNext == UiStep(Generations, {7}, {0}, {"full"}, {2})

ApiInit == api = IdleApi

\* a call generateDescriptions(theme, count) is made; the provider will
\* answer response
DescribeCall(key, count, response) ==
    /\ api.pc # "called"
    /\ api' = [pc |-> "called", key |-> key, count |-> count,
               response |-> response, result |-> NoResult]
    /\ UNCHANGED nonApiVars

\* part_003 144-232: the call settles
DescribeSettle ==
    /\ api.pc = "called"
    /\ api' = [api EXCEPT
                 !.pc = "settled",
                 !.result = generateDescriptions(api.key, api.response,
                                                 api.count)]
    /\ UNCHANGED nonApiVars

ApiNext ==
    \/ \E key \in BOOLEAN, count \in DescCounts :
          \E response \in ProviderResponses(count) :
             DescribeCall(key, count, response)
    \/ DescribeSettle

(***************************************************************************)
(* The preview, print and PDF adapters: part_001 1234-1342 and pdf.js      *)
(* 123-235                                                                 *)
(*                                                                         *)
(* A caller passes cards, layouts and images; each adapter gives what it   *)
(* draws.  Lengths are exact rationals as in generateAllLayouts: the       *)
(* preview in units of 1/Unit pixel, the print card in units of 1/Unit     *)
(* percent, the PDF in units of 1/InchUnit inch.                           *)
(***************************************************************************)
\* images[symbolIndex] of a 0-based symbol index; undefined is absent too
ImageAt(images, symbolIndex) ==
    IF symbolIndex + 1 \in 1..Len(images) THEN images[symbolIndex + 1]
    ELSE Null

\* part_001 1255-1259, 1318-1322, pdf.js 193-203: the (1-based) positions
\* from i on for which imageData && pos holds
RECURSIVE DrawnFromUntilAbsent(_, _, _, _)
RECURSIVE DrawnFrom(_, _, _, _)
DrawnFromUntilAbsent(symbolIndices, layout, images, i) ==
    IF i > Len(symbolIndices) THEN <<>>
    ELSE IF ImageAt(images, symbolIndices[i]) # Null /\ i <= Len(layout)
         THEN <<i>> \o DrawnFromUntilAbsent(symbolIndices, layout, images,
                                            i + 1)
         ELSE <<>>
DrawnFrom(symbolIndices, layout, images, i) ==
    IF i > Len(symbolIndices) THEN <<>>
    ELSE (IF ImageAt(images, symbolIndices[i]) # Null /\ i <= Len(layout)
          THEN <<i>> ELSE <<>>)
         \o DrawnFrom(symbolIndices, layout, images, i + 1)

\* what an adapter draws for position i of a card: the symbol, the
\* placement and the artwork it resolved, and where it put it
Drawn(symbolIndices, layout, images, i, left, top, side) ==
    [position |-> i - 1,
     symbol |-> symbolIndices[i],
     placement |-> layout[i],
     artwork |-> ImageAt(images, symbolIndices[i]),
     left |-> left, top |-> top, side |-> side]

\* part_001 1247-1279: createCardElement(symbolIndices, layout, size);
\* scale = size / 200, left = pos.x * scale (pixels)
PreviewSize == 180
createCardElement(symbolIndices, layout, images, size) ==
    LET kept == DrawnFrom(symbolIndices, layout, images, 1)
    IN  [p \in 1..Len(kept) |->
            LET pos == layout[kept[p]]
            IN  Drawn(symbolIndices, layout, images, kept[p],
                      (pos.x \div 200) * size, (pos.y \div 200) * size,
                      (pos.size \div 200) * size)]

\* part_001 1234-1242
renderCardsPreview(cs, lays, images) ==
    [c \in 1..Len(cs) |-> createCardElement(cs[c], lays[c], images,
                                            PreviewSize)]

\* part_001 1314-1342: createPrintCard; left = pos.x / 200 * 100 (percent)
createPrintCard(symbolIndices, layout, images) ==
    LET kept == DrawnFrom(symbolIndices, layout, images, 1)
    IN  [p \in 1..Len(kept) |->
            LET pos == layout[kept[p]]
            IN  Drawn(symbolIndices, layout, images, kept[p],
                      (pos.x \div 200) * 100, (pos.y \div 200) * 100,
                      (pos.size \div 200) * 100)]

\* part_001 1288, pdf.js 143-145
cardsPerRow == 3
cardsPerCol == 3
cardsPerPage == cardsPerRow * cardsPerCol

\* Math.ceil(cards.length / cardsPerPage)
TotalPagesRoundedDown(numCards) == numCards \div cardsPerPage
TotalPages(numCards) == (numCards + cardsPerPage - 1) \div cardsPerPage

\* part_001 1298-1304, pdf.js 162-174: the (0-based) cards of page pageIndex
PageCards(pageIndex, numCards) ==
    LET startCard == pageIndex * cardsPerPage
        endCard == Min(startCard + cardsPerPage, numCards)
    IN  [p \in 1..(endCard - startCard) |-> startCard + p - 1]

\* part_001 1284-1309: the pages, each the cards appended to its grid
preparePrintContainer(cs, lays, images) ==
    [page \in 1..TotalPages(Len(cs)) |->
        LET on == PageCards(page - 1, Len(cs))
        IN  [p \in 1..Len(on) |->
                [index |-> on[p],
                 symbols |-> createPrintCard(cs[on[p] + 1], lays[on[p] + 1],
                                             images)]]]

\* pdf.js 138-149 in units of 1/InchUnit inch: margin = 0.5,
\* cardWidth = 7.5 / 3, cardHeight = 10 / 3, cardSize = min * 0.95
InchUnit == 48000
PdfMargin == InchUnit \div 2
PdfCardWidth == ((17 * InchUnit) \div 2 - 2 * PdfMargin) \div cardsPerRow
PdfCardHeight == (11 * InchUnit - 2 * PdfMargin) \div cardsPerCol
PdfCardSize == (Min(PdfCardWidth, PdfCardHeight) \div 100) * 95

\* pdf.js 194-195: scale = size / 200, of a length of the layout
PdfScale(length, size) == (length \div (Unit \div 10)) * (size \div 2000)
\* pdf.js 195: padding = size * 0.05
PdfPadding(size) == (size \div 100) * 5

\* pdf.js 213-214: the clamp to the card bounds
ClampToCentre(origin, value, size, imgSize) == origin + (size - imgSize) \div 2
Clamp(origin, value, size, imgSize) ==
    LET lo == origin + PdfPadding(size)
        hi == origin + size - PdfPadding(size) - imgSize
    IN  IF Min(value, hi) > lo THEN Min(value, hi) ELSE lo

\* pdf.js 188-235: drawCard; unreadable are the symbols whose image
\* pdf.addImage throws on (the catch of 231 drops them)
drawCard(symbolIndices, images, layout, x, y, size, unreadable) ==
    LET kept == SelectSeq(DrawnFrom(symbolIndices, layout, images, 1),
                          LAMBDA i : symbolIndices[i] \notin unreadable)
    IN  [p \in 1..Len(kept) |->
            LET pos == layout[kept[p]]
                imgSize == PdfScale(pos.size, size)
            IN  Drawn(symbolIndices, layout, images, kept[p],
                      Clamp(x, x + PdfScale(pos.x, size), size, imgSize),
                      Clamp(y, y + PdfScale(pos.y, size), size, imgSize),
                      imgSize)]

\* pdf.js 123-182: the pages, each the cards drawn on it
generatePDF(cs, images, lays, unreadable) ==
    [page \in 1..TotalPages(Len(cs)) |->
        LET on == PageCards(page - 1, Len(cs))
        IN  [p \in 1..Len(on) |->
                LET cardIndexOnPage == p - 1
                    row == cardIndexOnPage \div cardsPerRow
                    col == cardIndexOnPage % cardsPerRow
                    x == PdfMargin + col * PdfCardWidth
                         + (PdfCardWidth - PdfCardSize) \div 2
                    y == PdfMargin + row * PdfCardHeight
                         + (PdfCardHeight - PdfCardSize) \div 2
                IN  [index |-> on[p], row |-> row, col |-> col,
                     x |-> x, y |-> y,
                     symbols |-> drawCard(cs[on[p] + 1], images,
                                          lays[on[p] + 1], x, y, PdfCardSize,
                                          unreadable)]]]

\* the arguments of the adapters: the first numCards cards of the deck of
\* order n with their layouts, and images with the symbols absent missing
\* (total = 0: the empty images array)
RenderOrders == {n \in SupportedOrders : n <= MaxRenderOrder}
AbsentSets ==
    {{}} \cup {{s} : s \in 0..MaxItems} \cup {{s, s + 2} : s \in 0..MaxItems}
ImagesWithout(total, absent) ==
    [s \in 1..total |-> IF s - 1 \in absent THEN Null ELSE Img(0, s - 1, 0)]
NoRender ==
    [pc |-> "idle", cards |-> <<>>, layouts |-> <<>>, images |-> <<>>,
     unreadable |-> {}, preview |-> <<>>, print |-> <<>>, pdf |-> <<>>]

RenderInit == render = NoRender

RenderCall(n, numCards, total, absent, unreadable) ==
    /\ render.pc = "idle"
    /\ numCards <= getTotalSymbols(n)
    /\ total \in {0, getTotalSymbols(n)}
    /\ total = 0 => absent = {}
    /\ render' = [NoRender EXCEPT
                    !.pc = "called",
                    !.cards = SubSeq(CardConfigurations[n].cards, 1, numCards),
                    !.layouts = CardConfigurations[n].layouts,
                    !.images = ImagesWithout(total, absent),
                    !.unreadable = unreadable]
    /\ UNCHANGED nonRenderVars

\* part_001 934-935, 1354-1357: the three adapters on the same arguments
RenderAll ==
    /\ render.pc = "called"
    /\ render' = [render EXCEPT
                    !.pc = "rendered",
                    !.preview = renderCardsPreview(render.cards,
                                                   render.layouts,
                                                   render.images),
                    !.print = preparePrintContainer(render.cards,
                                                    render.layouts,
                                                    render.images),
                    !.pdf = generatePDF(render.cards, render.images,
                                        render.layouts, render.unreadable)]
    /\ UNCHANGED nonRenderVars

RenderNext ==
    \/ \E n \in RenderOrders, numCards \in 0..getTotalSymbols(MaxRenderOrder),
          total \in {0} \cup {getTotalSymbols(n) : n \in RenderOrders},
          absent \in AbsentSets, unreadable \in {{}, {1}} :
          RenderCall(n, numCards, total, absent, unreadable)
    \/ RenderAll

(***************************************************************************)
(* generateAllLayouts (grid), algorithm.js 101-168, with a seededRandom    *)
(* that may return any value of [0, 1)                                     *)
(*                                                                         *)
(* Math.floor(r * (i + 1)) of such a value r is any of 0..i, so a step of  *)
(* the loop of seededShuffle swaps position i with any position j <= i.    *)
(***************************************************************************)
NoShuffle ==
    [pc |-> "idle", numCards |-> 0, symbolsPerCard |-> 0, cardIndex |-> 0,
     basePositions |-> <<>>, shuffled |-> <<>>, i |-> 0, pushed |-> <<>>]

ShufInit == shuf = NoShuffle

\* algorithm.js 101-160: the call up to the loop over the cards
ShuffledCall(numCards, symbolsPerCard) ==
    /\ shuf.pc \in {"idle", "returned"}
    /\ shuf' = [NoShuffle EXCEPT
                  !.pc = "cards",
                  !.numCards = numCards,
                  !.symbolsPerCard = symbolsPerCard,
                  !.basePositions = BasePositions(symbolsPerCard, 200)]
    /\ UNCHANGED nonShufVars

\* algorithm.js 161-163, 112-113: seededShuffle is called for the next
\* card; shuffled = [...array], i = shuffled.length - 1 (pushed is the
\* layout pushed last, which is looked at when it is pushed)
ShuffleStart ==
    /\ shuf.pc = "cards"
    /\ shuf.cardIndex < shuf.numCards
    /\ shuf' = [shuf EXCEPT !.pc = "shuffle",
                            !.pushed = <<>>,
                            !.shuffled = shuf.basePositions,
                            !.i = Len(shuf.basePositions) - 1]
    /\ UNCHANGED nonShufVars

\* algorithm.js 113-116: one iteration of the loop, seededRandom giving
\* a value whose j is j
ShuffleSwap(j) ==
    /\ shuf.pc = "shuffle"
    /\ shuf.i > 0
    /\ j \in 0..shuf.i
    /\ shuf' = [shuf EXCEPT !.shuffled = Swap(@, shuf.i, j), !.i = @ - 1]
    /\ UNCHANGED nonShufVars

\* algorithm.js 117, 164: the loop ends, shuffled is returned and pushed
ShufflePush ==
    /\ shuf.pc = "shuffle"
    /\ shuf.i <= 0
    /\ shuf' = [shuf EXCEPT !.pc = "cards", !.pushed = shuf.shuffled,
                            !.shuffled = <<>>, !.i = 0,
                            !.cardIndex = @ + 1]
    /\ UNCHANGED nonShufVars

\* algorithm.js 167
ShuffledReturn ==
    /\ shuf.pc = "cards"
    /\ shuf.cardIndex >= shuf.numCards
    /\ shuf' = [shuf EXCEPT !.pc = "returned"]
    /\ UNCHANGED nonShufVars

ShufNext ==
    \/ \E numCards \in 1..2, symbolsPerCard \in 1..MaxShuffled :
          ShuffledCall(numCards, symbolsPerCard)
    \/ ShuffleStart
    \/ \E j \in 0..(MaxShuffled - 1) : ShuffleSwap(j)
    \/ ShufflePush
    \/ ShuffledReturn

Init ==
    /\ CardsInit /\ OrchInit /\ PollInit /\ LayoutInit /\ PureInit
    /\ UiInit /\ ApiInit /\ RenderInit /\ ShufInit

SpecCards == Init /\ [][CardsNext]_vars

SpecOrch == Init /\ [][OrchNext]_vars

SpecShared == Init /\ [][SharedNext]_vars

SpecPoll == Init /\ [][PollNext]_vars

SpecLayout == Init /\ [][LayoutNext]_vars

SpecPure == Init /\ [][PureNext]_vars

SpecUi == Init /\ [][UiNext]_vars

SpecApi == Init /\ [][ApiNext]_vars

SpecRender == Init /\ [][RenderNext]_vars

SpecShuffle == Init /\ [][ShufNext]_vars

\* one generateAllImages call whose signal is never set.  The timers of
\* lines 389, 462, 465 and 564 fire, time passes, and every provider call
\* settles (the premise of the termination property).
OrchLiveNext ==
    \/ OrchStep({1}, {MaxItems}, {"other"}, {FALSE})
    \/ PauseElapsed(1)

SpecOrchLive ==
    /\ Init
    /\ [][OrchLiveNext]_vars
    /\ WF_vars(\E x \in Items : GateWake(1, x))
    /\ WF_vars(\E x \in Items : BackoffWake(1, x))
    /\ WF_vars(PauseElapsed(1))
    /\ WF_vars(WindowExpire)
    /\ WF_vars(\E x \in Items :
                  \/ ProviderOk(1, x, FALSE)
                  \/ ProviderFail(1, x, "other"))

SpecUiOverlap == Init /\ [][UiOverlapNext]_vars

(***************************************************************************)
(* Properties of the plane constructor (checked under SpecCards)           *)
(***************************************************************************)
SymbolSet(card) == {card[p] : p \in 1..Len(card)}

\* C1: for every supported order, any two distinct cards that
\* generateCards(n) returned have exactly one symbol index in common, and
\* verifyCards, once it has run over them, returns true.
C1_OneSharedSymbol ==
    (outcome = "returned" /\ order \in SupportedOrders) =>
        /\ \A a, b \in 1..Len(cards) :
              a # b => Cardinality(SymbolSet(cards[a]) \cap SymbolSet(cards[b])) = 1
        /\ cpc = "verified" => verdict = "true"

C1_Witness ==
    /\ cpc = "verified"
    /\ order = 7
    /\ verdict = "true"
    /\ vi = 57

\* C2: for every supported order n, generateCards(n) returns n*n+n+1 cards,
\* each of n+1 pairwise distinct indices, each index in 0 .. n*n+n.
C2_CountsAndRange ==
    (outcome = "returned" /\ order \in SupportedOrders) =>
        /\ Len(cards) = order * order + order + 1
        /\ \A c \in 1..Len(cards) :
              /\ Len(cards[c]) = order + 1
              /\ \A p, q \in 1..Len(cards[c]) : p # q => cards[c][p] # cards[c][q]
              /\ \A p \in 1..Len(cards[c]) :
                    cards[c][p] \in 0..(order * order + order)

C2_Witness ==
    /\ outcome = "returned"
    /\ order = 5
    /\ Len(cards) = 31
    /\ cpc = "verifying"

\* the card the construction puts at 0-based position c, in closed form
ExpectedCard(n, c) ==
    IF c = 0 THEN [p \in 1..(n + 1) |-> p - 1]
    ELSE IF c <= n
    THEN [p \in 1..(n + 1) |->
            IF p = 1 THEN 0 ELSE n + 1 + (c - 1) * n + (p - 2)]
    ELSE LET i == (c - n - 1) \div n
             j == (c - n - 1) % n
         IN  [p \in 1..(n + 1) |->
                IF p = 1 THEN i + 1
                ELSE n + 1 + (p - 2) * n + ((i * (p - 2) + j) % n)]

\* C3: generateCards(n) emits card 0 = [0..n], then card 1+i =
\* [0, n+1+i*n, ..] for i = 0..n-1, then card n+1+i*n+j = [i+1, ..] with
\* i outer and j inner; generateCards(2)[0] = [0,1,2].
C3_OrderAndContent ==
    (outcome = "returned" /\ order \in 0..MaxOrder) =>
        /\ Len(cards) = order * order + order + 1
        /\ \A c \in 1..Len(cards) : cards[c] = ExpectedCard(order, c - 1)
        /\ order = 2 => cards[1] = <<0, 1, 2>>

C3_Witness ==
    /\ outcome = "returned"
    /\ order = 3
    /\ Len(cards) = 13
    /\ cards[4 + 1 * 3 + 2 + 1] = <<2, 6, 7, 11>>

\* C4: for an order outside the supported set, card generation fails
\* before producing any card set: a call never returns a card list for it.
C4_UnsupportedOrderFails ==
    outcome = "returned" => order \in SupportedOrders

\* C4, the harm: a returned card list always has the one-shared-symbol
\* property (violated by generateCards(4): cards 5 and 13 share two symbols)
C4_ReturnedListIsPlane ==
    outcome = "returned" =>
        \A a, b \in 1..Len(cards) :
            a # b => Cardinality(SymbolSet(cards[a]) \cap SymbolSet(cards[b])) = 1

(***************************************************************************)
(* Properties of the orchestrator and the rate limiter                     *)
(***************************************************************************)
\* provider calls started and not yet settled, over all calls and items
InFlight == {c \in Sessions \X Items : task[c[1]][c[2]].pc = "call"}

\* C5: at every instant the number of provider calls started and not yet
\* settled, over all items of all generateAllImages calls sharing the
\* limiter and retried attempts included, is at most maxConcurrent.
C5_ConcurrencyCeiling == Cardinality(InFlight) <= maxConcurrent

\* the ceiling is reached by calls of different generateAllImages calls,
\* one of them a retried attempt, while a further task is held back by the
\* concurrency test alone
C5_Witness ==
    /\ Cardinality(InFlight) = maxConcurrent
    /\ \E c \in InFlight : task[c[1]][c[2]].attempt > 0
    /\ \E c, d \in InFlight : c[1] # d[1]
    /\ \E s \in Sessions : task[s][0].pc = "gate"
    /\ windowAdmits < maxPerMinute

\* C6: no trailing 60-second window holds more than maxPerMinute
\* admissions: a call is admitted only while fewer than maxPerMinute
\* admissions lie in the trailing window.
C6_RateCeiling == windowAdmits <= maxPerMinute

\* the window is full and a task is held back by the rate test alone
C6_Witness ==
    /\ windowAdmits = maxPerMinute
    /\ rateLimiter.activeCount < maxConcurrent
    /\ \E x \in Items : task[1][x].pc = "gate" /\ task[1][x].attempt > 0

\* C7: a call whose signal was set while it was running (so with fewer
\* than n items complete) never resolves with a result array.
C7_AbortNeverResolves ==
    \A s \in Sessions : sess[s].aborted => sess[s].status # "resolved"

\* an item is dispatched once its map callback has passed line 519
Dispatched(t) == t.pc \notin {"todo", "skipped"}

\* C8: once the signal is set, no item that was not yet dispatched is ever
\* dispatched (so the items of every later chunk never reach the provider).
C8_NoDispatchAfterAbort ==
    [][\A s \in Sessions, x \in Items :
          (sess[s].aborted /\ ~Dispatched(task[s][x])) =>
              (~Dispatched(task'[s][x]) /\ task'[s][x].calls = 0)]_vars

\* the call was cancelled at the chunk boundary with the first chunk
\* complete and the item of the second chunk never dispatched
C8_Witness ==
    /\ sess[1].aborted
    /\ sess[1].status = "cancelled"
    /\ sess[1].n = 3
    /\ sess[1].completed = 2
    /\ task[1][2].pc = "todo"
    /\ task[1][2].calls = 0

\* C9: each item gets at most maxRetries provider calls; an item whose
\* calls all failed is recorded as failed (slot null, onImageComplete got
\* the error) and the call still runs to its end: it rejects only when
\* cancelled, and when it resolves every item has been attempted and has
\* completed, the successful ones with their image in their slot.
C9_FailureIsolated ==
    \A s \in Sessions :
        /\ \A x \in Items :
              /\ task[s][x].calls <= maxRetries
              /\ task[s][x].pc = "failed" =>
                    /\ task[s][x].fails = maxRetries
                    /\ sess[s].images[x] = Null
                    /\ Len(task[s][x].done) = 1
                    /\ task[s][x].done[1].image = Null
                    /\ task[s][x].done[1].error \in {"rate", "other"}
        /\ sess[s].status = "cancelled" => sess[s].aborted
        /\ (sess[s].status = "resolved" /\ ~sess[s].aborted) =>
              \A x \in 0..(sess[s].n - 1) :
                  /\ task[s][x].pc \in {"ok", "failed"}
                  /\ task[s][x].calls >= 1
                  /\ task[s][x].pc = "ok" => sess[s].images[x] # Null

\* item 0 failed for good; item 1 of the same chunk and item 2 of the next
\* chunk were completed after that, and the call resolved
C9_Witness ==
    /\ sess[1].status = "resolved"
    /\ ~sess[1].aborted
    /\ sess[1].n = 3
    /\ task[1][0].pc = "failed"
    /\ task[1][0].calls = maxRetries
    /\ sess[1].failed = <<0>>
    /\ task[1][1].pc = "ok"
    /\ task[1][2].pc = "ok"
    /\ sess[1].images[2] = Img(1, 2, 0)

\* the provider rejected exactly one call of call s: the first one of item k
FailsOnlyFirstOf(s, k) ==
    /\ k < sess[s].n
    /\ task[s][k].fails = 1
    /\ \A x \in 0..(sess[s].n - 1) : x # k => task[s][x].fails = 0

\* C10: when the provider fails the first attempt of one item k and
\* succeeds on every other attempt, an uncancelled generateAllImages
\* returns an image for every index, slot k holding the image of the
\* second attempt.
C10_RetryRecovers ==
    \A s \in Sessions, k \in Items :
        (sess[s].status = "resolved" /\ ~sess[s].aborted /\ FailsOnlyFirstOf(s, k)) =>
            /\ \A x \in 0..(sess[s].n - 1) : sess[s].images[x] # Null
            /\ sess[s].images[k] = Img(s, k, 1)
            /\ task[s][k].calls = 2

C10_Witness ==
    /\ sess[1].status = "resolved"
    /\ ~sess[1].aborted
    /\ sess[1].n = 3
    /\ FailsOnlyFirstOf(1, 1)
    /\ sess[1].images = [x \in Items |-> IF x = 1 THEN Img(1, 1, 1) ELSE Img(1, x, 0)]

\* the items of call s whose map callback ran to its end
Completed(s) == {x \in Items : task[s][x].pc \in {"ok", "failed"}}

\* C11: onImageComplete is never invoked twice for an index, and when a
\* call that was not cancelled resolves it has been invoked exactly once
\* for every index 0..n-1: with the image for an item that succeeded (at
\* the first or at a retried attempt), with null and the error for an item
\* that failed for good; it is never invoked for an index >= n.
C11_OnceEach ==
    \A s \in Sessions :
        /\ \A x \in Items :
              /\ Len(task[s][x].done) <= 1
              /\ x >= sess[s].n => task[s][x].done = <<>>
        /\ (sess[s].status = "resolved" /\ ~sess[s].aborted) =>
              \A x \in 0..(sess[s].n - 1) :
                  /\ Len(task[s][x].done) = 1
                  /\ task[s][x].pc = "ok" =>
                        task[s][x].done[1] =
                            [image |-> Img(s, x, task[s][x].attempt), error |-> "none"]
                  /\ task[s][x].pc = "failed" =>
                        /\ task[s][x].done[1].image = Null
                        /\ task[s][x].done[1].error # "none"

\* one item succeeded at once, one after a retried attempt, one failed
C11_Witness ==
    /\ sess[1].status = "resolved"
    /\ ~sess[1].aborted
    /\ sess[1].n = 3
    /\ task[1][0].pc = "ok" /\ task[1][0].attempt = 0
    /\ task[1][1].pc = "ok" /\ task[1][1].attempt = 1
    /\ task[1][2].pc = "failed" /\ task[1][2].fails = maxRetries
    /\ \A x \in 0..2 : Len(task[1][x].done) = 1

\* C12: when generateAllImages resolves, every item has succeeded or failed
\* for good; the array returned has the indices 0..n-1, slot x holds the
\* image the provider returned for descriptions[x] if item x succeeded and
\* null if it failed.
C12_ResolvesComplete ==
    \A s \in Sessions :
        sess[s].status = "resolved" =>
            /\ DOMAIN sess[s].images = 0..(sess[s].n - 1)
            /\ \A x \in 0..(sess[s].n - 1) :
                  /\ task[s][x].pc \in {"ok", "failed"}
                  /\ task[s][x].pc = "ok" =>
                        sess[s].images[x] = Img(s, x, task[s][x].attempt)
                  /\ task[s][x].pc = "failed" => sess[s].images[x] = Null

\* a call with two descriptions resolved, item 0 failed and item 1 ok
C12_Witness ==
    /\ sess[1].status = "resolved"
    /\ sess[1].n = 2
    /\ task[1][0].pc = "failed"
    /\ task[1][1].pc = "ok"
    /\ sess[1].images = [x \in 0..1 |-> IF x = 0 THEN Null ELSE Img(1, 1, 0)]

\* C13: an item of a chunk after the first is dispatched (reaches the gate
\* or the provider) only in the step that ends the pause between chunks,
\* and at that moment every item of the earlier chunks has succeeded or
\* failed for good.
C13_ChunksInOrder ==
    [][\A s \in Sessions, x \in Items :
          (x >= batchSize /\ ~Dispatched(task[s][x]) /\ Dispatched(task'[s][x])) =>
              /\ sess[s].status = "pause"
              /\ \A y \in 0..((x \div batchSize) * batchSize - 1) :
                    task[s][y].pc \in {"ok", "failed"}]_vars

\* the item of the second chunk is at the provider, after an item of the
\* first chunk went through a retry
C13_Witness ==
    /\ sess[1].n = 3
    /\ sess[1].i = batchSize
    /\ task[1][2].pc = "call"
    /\ task[1][0].pc = "ok" /\ task[1][0].attempt = 1
    /\ task[1][1].pc = "failed"

\* C14: the count reported by onProgress is the number of items completed
\* (succeeded or failed for good) and the total reported is n; each
\* completion raises the count by exactly one; the count never decreases,
\* never exceeds n and is n when the call resolves.
C14_ProgressCount ==
    /\ [](\A s \in Sessions :
            /\ sess[s].completed = Cardinality(Completed(s))
            /\ sess[s].reported = sess[s].completed
            /\ sess[s].reported <= sess[s].n
            /\ sess[s].status # "idle" => sess[s].total = sess[s].n
            /\ sess[s].status = "resolved" => sess[s].reported = sess[s].n)
    /\ [][\A s \in Sessions :
            /\ sess'[s].reported >= sess[s].reported
            /\ sess'[s].reported - sess[s].reported =
                  Cardinality(Completed(s)') - Cardinality(Completed(s))
            /\ sess'[s].reported - sess[s].reported <= 1]_vars

\* all three items completed, one of them as a failure
C14_Witness ==
    /\ sess[1].status = "resolved"
    /\ sess[1].n = 3
    /\ sess[1].reported = 3
    /\ sess[1].total = 3
    /\ Len(sess[1].failed) = 1

\* C15: an item whose cache write failed is a success all the same: its
\* slot holds its image, onImageComplete got the image and no error, it is
\* not in the failed list, and the call is not rejected for it (it rejects
\* only when cancelled).
C15_CacheFailureHarmless ==
    \A s \in Sessions :
        /\ \A x \in Items :
              task[s][x].quota =>
                  /\ task[s][x].pc = "ok"
                  /\ sess[s].images[x] = Img(s, x, task[s][x].attempt)
                  /\ task[s][x].done =
                        <<[image |-> Img(s, x, task[s][x].attempt), error |-> "none"]>>
                  /\ \A p \in 1..Len(sess[s].failed) : sess[s].failed[p] # x
        /\ sess[s].status = "cancelled" => sess[s].aborted

\* the write for item 1 failed; the call resolved with its image
C15_Witness ==
    /\ sess[1].status = "resolved"
    /\ ~sess[1].aborted
    /\ sess[1].n = 2
    /\ task[1][1].quota
    /\ ~task[1][0].quota
    /\ sess[1].images[1] = Img(1, 1, 0)
    /\ cache[1] = Null

(***************************************************************************)
(* Properties of the status polling (checked under SpecPoll)               *)
(***************************************************************************)
\* C16: while the answers are pending (or errors), status requests go on
\* with the fixed wait pollInterval between them, at most maxAttempts = 60
\* per generation; the request after which the loop ends without a result
\* is the 60th, the error then is the time-out, which the retry loop
\* answers like any other failure (a 2 s wait and a new attempt while
\* attempts remain); an answer FAILED ends the polling at once.
C16_PollingBounded ==
    /\ [](/\ polls <= maxAttempts
          /\ gpc = "sleep" => (pollWait = pollInterval /\ polls = pollAttempt)
          /\ gpc = "fetch" => polls = pollAttempt + 1
          /\ (gpc \in {"backoff", "thrown"} /\ gerror = TimedOutMessage) =>
                (polls = maxAttempts /\ lastResponse \in {"notok", "pending", "empty"})
          /\ (gpc = "backoff" /\ gerror = TimedOutMessage) => gwait = 2000)
    /\ [][/\ (gpc = "fetch" /\ lastResponse' \in {"notok", "pending", "empty"}) =>
                IF polls < maxAttempts
                THEN gpc' = "sleep"
                ELSE /\ gerror' = TimedOutMessage
                     /\ gpc' = IF gattempt < maxRetries - 1 THEN "backoff" ELSE "thrown"
          /\ (gpc = "fetch" /\ lastResponse' = "failed") =>
                /\ gpc' \in {"backoff", "thrown"}
                /\ gerror' = GenerationFailedMessage
                /\ polls' = polls]_vars

\* the job timed out on the first attempt after 60 pending answers, was
\* tried again and is being polled in the second attempt
C16_Witness ==
    /\ gattempt = 1
    /\ gerror = TimedOutMessage
    /\ gpc = "fetch"
    /\ polls = 3

(***************************************************************************)
(* Properties of generateAllLayouts (checked under SpecLayout)             *)
(***************************************************************************)
\* the square of placement pos lies inside the canvas of side cardSize
InsideCanvas(pos, cardSize) ==
    /\ pos.x >= 0
    /\ pos.y >= 0
    /\ pos.size > 0
    /\ pos.x + pos.size <= cardSize * Unit
    /\ pos.y + pos.size <= cardSize * Unit

\* C17: for symbolsPerCard in {3, 4, 6, 8}, every placement that
\* generateAllLayouts returns (grid version) or pushes (radial version) has
\* its square [x, x+size] x [y, y+size] inside [0, cardSize] x [0, cardSize];
\* so for generateAllLayouts(1, 3, 200).
C17_InsideCanvas ==
    /\ layArgs.symbolsPerCard \in {3, 4, 6, 8} =>
          \A c \in 1..Len(layouts) : \A p \in 1..Len(layouts[c]) :
              InsideCanvas(layouts[c][p], layArgs.cardSize)
    /\ (rad.args.symbolsPerCard \in {3, 4, 6, 8} /\ rad.pc = "pushed") =>
          InsideCanvas(rad.pos, rad.args.cardSize)

\* generateAllLayouts(1, 3, 200) of the grid version: the third placement
\* is the one of cell (row 1, column 0), of side 71.4
C17_Witness ==
    /\ version = "grid"
    /\ layArgs = [numCards |-> 1, symbolsPerCard |-> 3, cardSize |-> 200]
    /\ Len(layouts) = 1
    /\ layouts[1][3].y > 100 * Unit
    /\ layouts[1][3].x + layouts[1][3].size < 100 * Unit
    /\ layouts[1][3].size * 10 = 714 * Unit

\* the radial version at its outermost: the largest size category, the
\* largest size variation and distance, on the axis
C17_WitnessRadial ==
    /\ version = "radial"
    /\ rad.args.symbolsPerCard = 8
    /\ rad.pc = "pushed"
    /\ rad.positions = 8
    /\ rad.pos.size = RadialSize(200, 42, 1)
    /\ rad.pos.x = 100 * Unit + RadialDist(200, 42, 1) - RadialSize(200, 42, 1) \div 2

\* C18: generateAllLayouts(numCards, symbolsPerCard, cardSize) returns
\* exactly numCards layouts of exactly symbolsPerCard placements each.
C18_LayoutCounts ==
    /\ Len(layouts) = layArgs.numCards
    /\ \A c \in 1..Len(layouts) : Len(layouts[c]) = layArgs.symbolsPerCard
    /\ rad.pushed > 0 => rad.lastLen = rad.args.symbolsPerCard
    /\ rad.pc = "returned" => rad.pushed = rad.args.numCards

\* three layouts of three placements (a grid of 2 x 2 cells, one unused)
C18_Witness ==
    /\ version = "grid"
    /\ layArgs.numCards = 3
    /\ layArgs.symbolsPerCard = 3
    /\ Len(layouts) = 3
    /\ Len(layouts[3]) = 3
    /\ layouts[3] # layouts[1]

OrderOfCount(n, count) == n \in SupportedOrders /\ n * n + n + 1 = count

C21_ConfigurationMatchesCount ==
    /\ \A count \in SymbolCounts :
          /\ OrderOfCount(SYMBOL_COUNT_TO_ORDER(count), count)
          /\ \A n \in SupportedOrders :
                OrderOfCount(n, count) => n = SYMBOL_COUNT_TO_ORDER(count)
    /\ uiPc = "ready" =>
          /\ state.symbolCount \in SymbolCounts
          /\ OrderOfCount(state.order, state.symbolCount)
          /\ Len(state.cards) = state.symbolCount
          /\ Len(state.layouts) = Len(state.cards)
          /\ \A c \in 1..Len(state.layouts) :
                Len(state.layouts[c]) = state.order + 1

\* start over has run on a deck of 7 symbols that a symbol-count change made
C21_Witness ==
    /\ uiPc = "ready"
    /\ state.symbolCount = 7
    /\ state.order = 2
    /\ Len(state.cards) = 7
    /\ Len(state.layouts) = 7
    /\ Len(state.layouts[7]) = 3
    /\ state.currentStep = 1
    /\ toasts = <<[message |-> "Ready to create new cards!",
                   type |-> "success"]>>

(***************************************************************************)
(* C22: generateDescriptions(theme, count) either returns exactly count    *)
(* descriptions, the first count entries of the array the provider sent,   *)
(* or fails as a whole: without an API key, on a response that is not OK,  *)
(* on content that does not parse to an array and on an array of fewer     *)
(* than count entries the call throws an error and returns no list.        *)
(***************************************************************************)
C22_AllOrNothing ==
    api.pc = "settled" =>
        LET items == api.response.content.items
            usable == /\ api.key
                      /\ api.response.ok
                      /\ api.response.content.parse = "array"
                      /\ Len(items) >= api.count
        IN  IF usable
            THEN /\ api.result.kind = "returned"
                 /\ Len(api.result.value) = api.count
                 /\ \A i \in 1..api.count : api.result.value[i] = items[i]
            ELSE /\ api.result.kind = "threw"
                 /\ api.result.message # ""
                 /\ api.result.value = <<>>

\* the provider sent two descriptions where three were asked for
C22_Witness ==
    /\ api.pc = "settled"
    /\ api.key
    /\ api.response.ok
    /\ api.response.content.parse = "array"
    /\ api.count = 3
    /\ Len(api.response.content.items) = 2
    /\ api.result.kind = "threw"
    /\ api.result.message = ExpectedCountMessage

(***************************************************************************)
(* C23: when the awaited description request fails, whatever the failure,  *)
(* the handler leaves currentStep and the descriptions held so far as they *)
(* are, shows the error in exactly one toast of type error, hides the      *)
(* progress bar and enables the generate-descriptions button again; and    *)
(* the button stays disabled for as long as the call is awaited.           *)
(***************************************************************************)
DescriptionFailures ==
    {Threw(KeyNotSetMessage), Threw(RequestFailedMessage),
     Threw(ParseFailedMessage), Threw(ExpectedCountMessage)}

C23_FailureKeepsStep ==
    (uiPc = "ready" /\ descCall.pc = "awaiting") =>
        /\ elements.btnGenerateDescriptionsDisabled
        /\ \A kind \in Answers :
              generateDescriptions(TRUE, Answer(kind, descCall.count),
                                   descCall.count).kind = "threw"
              <=> kind # "full"
        /\ \A result \in DescriptionFailures :
              LET w == AfterDescriptions(World, result)
              IN  /\ w.state.currentStep = state.currentStep
                  /\ w.state.descriptions = state.descriptions
                  /\ w.state.images = state.images
                  /\ w.localStorage = localStorage
                  /\ w.toasts = <<[message |-> result.message,
                                   type |-> "error"]>>
                  /\ ~w.elements.btnGenerateDescriptionsDisabled
                  /\ w.elements.symbolsProgressHidden
                  /\ w.elements.inputs = elements.inputs

\* a request made while descriptions were held has been refused
C23_Witness ==
    /\ uiPc = "ready"
    /\ descCall.pc = "idle"
    /\ state.currentStep = 2
    /\ Len(state.descriptions) = 7
    /\ state.descriptions[7] = 107
    /\ toasts = <<[message |-> RequestFailedMessage, type |-> "error"]>>
    /\ ~elements.btnGenerateDescriptionsDisabled

(***************************************************************************)
(* C24: when the awaited generateAllImages call ends with the cancelled    *)
(* outcome, the handler goes to step 2, shows no toast of type error (it   *)
(* shows one warning) and leaves state.images as it was.                   *)
(***************************************************************************)
C24_CancelledIsUserStop ==
    [][\A g \in Generations :
          (genCalls[g].status = "pending" /\ genCalls'[g].status = "cancelled")
          => /\ state'.currentStep = 2
             /\ state'.images = state.images
             /\ toasts' = <<[message |-> "Generation cancelled",
                             type |-> "warning"]>>
             /\ \A i \in 1..Len(toasts') : toasts'[i].type # "error"]_vars

\* a generation was cancelled while the images of an earlier one were held
C24_Witness ==
    /\ uiPc = "ready"
    /\ genCalls[1].status = "cancelled"
    /\ state.currentStep = 2
    /\ toasts = <<[message |-> "Generation cancelled", type |-> "warning"]>>
    /\ Len(state.images) = 7
    /\ state.images[1] = Img(1, 0, 0)

(***************************************************************************)
(* C25 (as the code has it): for every card c and position i each of the   *)
(* preview, print and PDF adapters draws the position exactly when the     *)
(* artwork images[cards[c][i]] is present, except that the PDF adapter     *)
(* also leaves out a position whose image pdf.addImage rejects; what it    *)
(* draws for the position is symbol cards[c][i] with placement             *)
(* layouts[c][i] and artwork images[symbol], in position order.  A         *)
(* position that is left out takes no other position and no other card    *)
(* with it.                                                                *)
(***************************************************************************)
\* the symbols drawn for card c (0-based) by the print and PDF adapters
OnPages(pages, c) ==
    LET at == CHOOSE pq \in {<<p, q>> : p \in 1..Len(pages),
                                       q \in 1..cardsPerPage} :
                  /\ pq[2] <= Len(pages[pq[1]])
                  /\ pages[pq[1]][pq[2]].index = c
    IN  pages[at[1]][at[2]].symbols

\* items is what an adapter drew for card c when it leaves out the symbols
\* of skipped besides those without artwork
DrawsCard(items, c, skipped) ==
    LET card == render.cards[c + 1]
    IN  /\ {items[p].position + 1 : p \in 1..Len(items)}
             = {i \in 1..Len(card) :
                   /\ ImageAt(render.images, card[i]) # Null
                   /\ card[i] \notin skipped}
        /\ \A p, q \in 1..Len(items) :
              p < q => items[p].position < items[q].position
        /\ \A p \in 1..Len(items) :
              LET i == items[p].position + 1
              IN  /\ items[p].symbol = card[i]
                  /\ items[p].placement = render.layouts[c + 1][i]
                  /\ items[p].artwork = render.images[card[i] + 1]
                  /\ items[p].artwork # Null

C25_AdaptersSkipOnlyUndrawable ==
    render.pc = "rendered" =>
        \A c \in 0..(Len(render.cards) - 1) :
           /\ DrawsCard(render.preview[c + 1], c, {})
           /\ DrawsCard(OnPages(render.print, c), c, {})
           /\ DrawsCard(OnPages(render.pdf, c), c, render.unreadable)

\* C25 as stated: the PDF adapter, too, leaves out only the positions whose
\* artwork is absent
C25_AsStated ==
    render.pc = "rendered" =>
        \A c \in 0..(Len(render.cards) - 1) :
           /\ DrawsCard(render.preview[c + 1], c, {})
           /\ DrawsCard(OnPages(render.print, c), c, {})
           /\ DrawsCard(OnPages(render.pdf, c), c, {})

\* the deck of 13 cards with the artwork of symbols 0 and 2 absent and the
\* image of symbol 1 rejected by pdf.addImage: card 0 (symbols 0, 1, 2, 3)
\* is drawn with symbols 1 and 3 in preview and print, with symbol 3 in the
\* PDF
C25_Witness ==
    /\ render.pc = "rendered"
    /\ Len(render.cards) = 13
    /\ Len(render.images) = 13
    /\ render.images[1] = Null
    /\ render.images[3] = Null
    /\ render.unreadable = {1}
    /\ Len(render.preview[1]) = 2
    /\ render.preview[1][1].symbol = 1
    /\ render.preview[1][2].symbol = 3
    /\ Len(OnPages(render.print, 0)) = 2
    /\ Len(OnPages(render.pdf, 0)) = 1
    /\ OnPages(render.pdf, 0)[1].symbol = 3
    /\ Len(OnPages(render.print, 12)) >= 3

(***************************************************************************)
(* C26: the print container and the PDF place the cards 9 to a page in     *)
(* card-index order: there are ceil(cardCount / 9) pages, card i appears   *)
(* exactly once, on page floor(i / 9) as entry i mod 9 of the page, which  *)
(* the PDF draws in row floor((i mod 9) / 3), column i mod 3, and every    *)
(* page but the last holds 9 cards.                                        *)
(***************************************************************************)
\* the entries <<page, place>> (0-based) at which pages holds card i
PlacesOf(pages, i) ==
    {pq \in {<<p, q>> : p \in 0..(Len(pages) - 1), q \in 0..8} :
        /\ pq[2] < Len(pages[pq[1] + 1])
        /\ pages[pq[1] + 1][pq[2] + 1].index = i}

Paginated(pages, cardCount) ==
    /\ 9 * Len(pages) >= cardCount
    /\ 9 * (Len(pages) - 1) < cardCount \/ (cardCount = 0 /\ Len(pages) = 0)
    /\ \A p \in 1..Len(pages) :
          /\ Len(pages[p]) \in 1..9
          /\ p < Len(pages) => Len(pages[p]) = 9
          /\ \A q \in 1..Len(pages[p]) :
                pages[p][q].index \in 0..(cardCount - 1)
    /\ \A i \in 0..(cardCount - 1) :
          PlacesOf(pages, i) = {<<i \div 9, i % 9>>}

C26_NinePerPage ==
    render.pc = "rendered" =>
        /\ Paginated(render.print, Len(render.cards))
        /\ Paginated(render.pdf, Len(render.cards))
        /\ \A p \in 1..Len(render.pdf) :
              \A q \in 1..Len(render.pdf[p]) :
                 LET drawn == render.pdf[p][q]
                 IN  /\ drawn.row = (drawn.index % 9) \div 3
                     /\ drawn.col = drawn.index % 3
                     /\ drawn.x = PdfMargin + drawn.col * PdfCardWidth
                                  + (PdfCardWidth - PdfCardSize) \div 2
                     /\ drawn.y = PdfMargin + drawn.row * PdfCardHeight
                                  + (PdfCardHeight - PdfCardSize) \div 2

\* 31 cards on four pages: card 22 is entry 4 of the third page (row 1,
\* column 1) and the last page holds four cards
C26_Witness ==
    /\ render.pc = "rendered"
    /\ Len(render.cards) = 31
    /\ Len(render.pdf) = 4
    /\ Len(render.print) = 4
    /\ render.pdf[3][5].index = 22
    /\ render.pdf[3][5].row = 1
    /\ render.pdf[3][5].col = 1
    /\ render.print[3][5].index = 22
    /\ Len(render.pdf[4]) = 4

(***************************************************************************)
(* C30: for the layouts generateAllLayouts produces for canvas size 200,   *)
(* the PDF draws every symbol at the proportionally scaled placement       *)
(* (card origin + pos.x * size / 200, card origin + pos.y * size / 200,    *)
(* side pos.size * size / 200): the clamp to the card bounds moves no      *)
(* placement, and the PDF shows every symbol at the same fraction of the   *)
(* card as the screen preview does, unrotated in both.                     *)
(***************************************************************************)
\* a length of the PDF card, and of the preview card, in 1/2000 of the
\* card's side; Whole... says that the conversion has no remainder
PdfFraction(length) == length \div (PdfCardSize \div 2000)
WholePdfFraction(length) == length % (PdfCardSize \div 2000) = 0
PreviewFraction(length) == (length \div PreviewSize) \div (Unit \div 2000)
WholePreviewFraction(length) ==
    /\ length % PreviewSize = 0
    /\ (length \div PreviewSize) % (Unit \div 2000) = 0

\* pos.x * size / 200 is computed without remainder
ScalesExactly(length) ==
    /\ length % (Unit \div 10) = 0
    /\ PdfCardSize % 2000 = 0

C30_ClampMovesNothing ==
    render.pc = "rendered" =>
        \A p \in 1..Len(render.pdf) :
           \A q \in 1..Len(render.pdf[p]) :
              LET card == render.pdf[p][q]
                  shown == render.preview[card.index + 1]
              IN  \A s \in 1..Len(card.symbols) :
                     LET drawn == card.symbols[s]
                         pos == drawn.placement
                     IN  /\ ScalesExactly(pos.x)
                         /\ ScalesExactly(pos.y)
                         /\ ScalesExactly(pos.size)
                         /\ drawn.left = card.x + PdfScale(pos.x, PdfCardSize)
                         /\ drawn.top = card.y + PdfScale(pos.y, PdfCardSize)
                         /\ drawn.side = PdfScale(pos.size, PdfCardSize)
                         /\ pos.rotation = 0
                         /\ \A t \in 1..Len(shown) :
                               shown[t].position = drawn.position =>
                                  /\ WholePdfFraction(drawn.left - card.x)
                                  /\ WholePdfFraction(drawn.top - card.y)
                                  /\ WholePdfFraction(drawn.side)
                                  /\ WholePreviewFraction(shown[t].left)
                                  /\ WholePreviewFraction(shown[t].top)
                                  /\ WholePreviewFraction(shown[t].side)
                                  /\ PreviewFraction(shown[t].left)
                                       = PdfFraction(drawn.left - card.x)
                                  /\ PreviewFraction(shown[t].top)
                                       = PdfFraction(drawn.top - card.y)
                                  /\ PreviewFraction(shown[t].side)
                                       = PdfFraction(drawn.side)

\* the deck of 31 cards of 6 symbols, all artwork present: card 4 is drawn
\* in the middle of the first page, and one of its symbols in the corner
\* cell of the grid nearest the card's origin, 20.2 and 34.2 canvas pixels
\* from it at side 47.6, which is 202 * 57, 342 * 57 and 476 * 57 units
C30_Witness ==
    /\ render.pc = "rendered"
    /\ Len(render.cards) = 31
    /\ Len(render.images) = 31
    /\ \A s \in 1..31 : render.images[s] # Null
    /\ render.unreadable = {}
    /\ render.pdf[1][5].index = 4
    /\ Len(render.pdf[1][5].symbols) = 6
    /\ Len(render.preview[5]) = 6
    /\ \E s \in 1..6 :
          /\ render.pdf[1][5].symbols[s].left - render.pdf[1][5].x = 11514
          /\ render.pdf[1][5].symbols[s].top - render.pdf[1][5].y = 19494
          /\ render.pdf[1][5].symbols[s].side = 27132

(***************************************************************************)
(* C27: the wait before a retry depends on the class of the failure: after *)
(* a failure whose message contains 'rate', '429' or 'too many' it is 10 s *)
(* after the first failed attempt and 20 s after the second; after any     *)
(* other failure it is 2 s; the retry follows the wait.  The third failed  *)
(* attempt is the last one: no wait follows it, the error is thrown.       *)
(***************************************************************************)
\* the messages of the model that hold one of the three patterns
RateLimitSignals == {RateLimitMessage, Status429Message, TooManyMessage}

Admitted == {x \in Items : task[1][x].pc # "call" /\ task'[1][x].pc = "call"}
Released == {x \in Items : task[1][x].pc = "call" /\ task'[1][x].pc # "call"}

FreshEntries(tss) == Len(SelectSeq(tss, LAMBDA ts : ts = "fresh"))

C28_SlotsAndGate ==
    [][/\ sess[1].status # "idle" =>
             \A x \in 0..(sess[1].n - 1) :
                sess'[1].images[x] # sess[1].images[x] =>
                   /\ sess[1].images[x] = Null
                   /\ task[1][x].pc = "call"
                   /\ task'[1][x].pc = "ok"
                   /\ sess'[1].images[x] = Img(1, x, task[1][x].attempt)
       /\ rateLimiter'.activeCount =
             rateLimiter.activeCount + Cardinality(Admitted)
                                     - Cardinality(Released)
       /\ Len(rateLimiter'.requestTimestamps) \in
             {Len(rateLimiter.requestTimestamps) + Cardinality(Admitted),
              FreshEntries(rateLimiter.requestTimestamps)
                 + Cardinality(Admitted)}
       /\ FreshEntries(rateLimiter'.requestTimestamps) \in
             {FreshEntries(rateLimiter.requestTimestamps)
                 + Cardinality(Admitted),
              FreshEntries(rateLimiter.requestTimestamps) - 1}]_vars

\* as stated: nothing but acquire and release changes the gate, so the
\* getStatus call of line 534, which the task makes after the release of
\* line 443 when its generateImage call has succeeded, leaves it as it is
C28_AsStated ==
    (\E x \in Items : task[1][x].pc = "call") =>
        getStatus(release(rateLimiter)) = release(rateLimiter)

\* slot 0 is written, the call of item 1 is in flight alone, and the
\* history holds an entry older than a minute that the next getStatus
\* takes out
C28_Witness ==
    /\ sess[1].status = "running"
    /\ sess[1].n >= 2
    /\ sess[1].images[0] = Img(1, 0, 0)
    /\ task[1][0].pc = "ok"
    /\ task[1][1].pc = "call"
    /\ rateLimiter.activeCount = 1
    /\ Len(rateLimiter.requestTimestamps) = 2
    /\ rateLimiter.requestTimestamps[1] = "old"

(***************************************************************************)
(* Properties of the grid layout under an arbitrary seededRandom (checked  *)
(* under SpecShuffle)                                                      *)
(***************************************************************************)
\* every entry of b is at exactly one position of a
IsPermutationOf(a, b) ==
    /\ Len(a) = Len(b)
    /\ \A p \in 1..Len(b) :
          Cardinality({q \in 1..Len(a) : a[q] = b[p]}) = 1

\* the placements of one card are in different cells, of one size, upright
OnePerCell(layout) ==
    /\ \A p, q \in 1..Len(layout) :
          p # q => <<layout[p].x, layout[p].y>> # <<layout[q].x, layout[q].y>>
    /\ \A p \in 1..Len(layout) :
          /\ layout[p].size = layout[1].size
          /\ layout[p].rotation = 0

\* C29: in the grid layout every card's layout is a permutation of the
\* same symbolsPerCard base placements, whatever values of [0, 1) the
\* seeded generator returns: no cell of the grid is used by two positions
\* of a card, and every placement has the same size and rotation 0.
C29_PermutationOfBase ==
    /\ shuf.pc # "idle" =>
          /\ shuf.basePositions = BasePositions(shuf.symbolsPerCard, 200)
          /\ Len(shuf.basePositions) = shuf.symbolsPerCard
          /\ OnePerCell(shuf.basePositions)
    /\ shuf.pc = "shuffle" =>
          IsPermutationOf(shuf.shuffled, shuf.basePositions)
    /\ (shuf.pc = "cards" /\ shuf.cardIndex > 0) =>
          /\ IsPermutationOf(shuf.pushed, shuf.basePositions)
          /\ OnePerCell(shuf.pushed)

\* the layout pushed for the second card of 6 symbols is the base
\* placements in reverse order
C29_Witness ==
    /\ shuf.pc = "cards"
    /\ shuf.symbolsPerCard = 6
    /\ shuf.cardIndex = 2
    /\ shuf.pushed = [p \in 1..6 |-> shuf.basePositions[7 - p]]

(***************************************************************************)
(* C31: every acquire that returned is matched by exactly one release,     *)
(* also when the provider call throws: activeCount is the number of        *)
(* provider calls outstanding, so it is never negative, never above        *)
(* maxConcurrent, and 0 when no call is outstanding, in particular once    *)
(* generateAllImages has settled; the calls started are the outstanding    *)
(* ones plus those that were rejected or returned.                         *)
(***************************************************************************)
\* over the items from x on of call 1: the provider calls started, and
\* those that have ended (rejected, or returned for an item that is done)
RECURSIVE CallsStarted(_)
CallsStarted(x) ==
    IF x \in Items THEN task[1][x].calls + CallsStarted(x + 1) ELSE 0
RECURSIVE CallsEnded(_)
CallsEnded(x) ==
    IF x \in Items
    THEN task[1][x].fails + (IF task[1][x].pc = "ok" THEN 1 ELSE 0)
         + CallsEnded(x + 1)
    ELSE 0

C31_AcquireReleasePaired ==
    /\ rateLimiter.activeCount = Cardinality(InFlight)
    /\ rateLimiter.activeCount >= 0
    /\ rateLimiter.activeCount <= maxConcurrent
    /\ CallsStarted(0) = CallsEnded(0) + rateLimiter.activeCount
    /\ sess[1].status \in {"resolved", "cancelled"} =>
          /\ rateLimiter.activeCount = 0
          /\ \A x \in Items : task[1][x].pc \notin {"call", "gate", "backoff"}

\* the call has resolved after the provider rejected all three attempts of
\* item 1 and served items 0 and 2: five calls started, none outstanding
C31_Witness ==
    /\ sess[1].status = "resolved"
    /\ sess[1].n = 3
    /\ task[1][1].pc = "failed"
    /\ task[1][1].fails = 3
    /\ task[1][0].pc = "ok"
    /\ task[1][2].pc = "ok"
    /\ CallsStarted(0) = 5
    /\ rateLimiter.activeCount = 0

(***************************************************************************)
(* C32: an item that waits out a retry backoff holds no concurrency slot:  *)
(* the slot is released when its attempt fails, before the wait starts,    *)
(* and the next attempt goes through acquire again: it starts a provider   *)
(* call only if the gate admits it, taking a slot and recording a new      *)
(* timestamp, and waits in the gate otherwise.                             *)
(***************************************************************************)
\* the items of call 1 that wait out a backoff
BackingOff == {x \in Items : task[1][x].pc = "backoff"}

C32_BackoffHoldsNoSlot ==
    /\ [](rateLimiter.activeCount + Cardinality(BackingOff)
             = Cardinality({x \in Items :
                               task[1][x].pc \in {"call", "backoff"}}))
    /\ [][\A x \in Items :
             /\ (task[1][x].pc = "call" /\ task'[1][x].pc = "backoff") =>
                   rateLimiter'.activeCount = rateLimiter.activeCount - 1
             /\ task[1][x].pc = "backoff" =>
                   /\ task'[1][x].pc \in {"backoff", "call", "gate"}
                   /\ task'[1][x].pc = "call" =>
                         /\ ~AcquireBlocked(rateLimiter)
                         /\ task'[1][x].attempt = task[1][x].attempt + 1
                         /\ task'[1][x].calls = task[1][x].calls + 1
                         /\ rateLimiter'.activeCount
                               = rateLimiter.activeCount + 1
                         /\ rateLimiter'.requestTimestamps
                               = Append(cleanupTimestamps(rateLimiter)
                                           .requestTimestamps, "fresh")
                   /\ task'[1][x].pc = "gate" =>
                         /\ AcquireBlocked(rateLimiter)
                         /\ task'[1][x].attempt = task[1][x].attempt + 1
                         /\ task'[1][x].calls = task[1][x].calls
                         /\ rateLimiter'.activeCount
                               = rateLimiter.activeCount]_vars

\* item 0 waits out a backoff while item 1 of the same chunk has its call
\* in flight: one slot is taken, the waiting item's is free
C32_Witness ==
    /\ sess[1].status = "running"
    /\ task[1][0].pc = "backoff"
    /\ task[1][0].fails = 1
    /\ task[1][1].pc = "call"
    /\ rateLimiter.activeCount = 1
    /\ Len(rateLimiter.requestTimestamps) = 2

(***************************************************************************)
(* C33: after the cancellation signal is set no provider call starts: an   *)
(* item dispatched before the signal that fails an attempt afterwards      *)
(* makes no further attempt.                                               *)
(***************************************************************************)
C33_NoCallAfterAbort ==
    [][sess[1].aborted =>
          \A x \in Items :
             /\ task'[1][x].calls = task[1][x].calls
             /\ task[1][x].pc = "backoff" => task'[1][x].pc # "call"]_vars

(***************************************************************************)
(* C34: when a generation was cancelled by navigating back from step 3 and *)
(* a new one was started before the old call settled, nothing the old call *)
(* does when it settles (its cancelled outcome or a late normal return,    *)
(* with the cache writes of its items) changes the new session's           *)
(* currentStep, state.images or cached artwork.                            *)
(***************************************************************************)
\* call g was cancelled and has not settled, and a later call is the
\* current one, awaited on step 3
Superseded(g) ==
    /\ genCalls[g].status = "pending"
    /\ genCalls[g].aborted
    /\ state.currentStep = 3
    /\ state.abortController \in Generations \ {g}
    /\ genCalls[state.abortController].status = "pending"
    /\ ~genCalls[state.abortController].aborted

C34_OldSessionIsInert ==
    [][\A g \in Generations :
          (Superseded(g)
              /\ genCalls'[g].status \in {"resolved", "cancelled"}) =>
              /\ state'.currentStep = state.currentStep
              /\ state'.images = state.images
              /\ imageCache' = imageCache]_vars

(***************************************************************************)
(* C35: if every provider call settles and the signal is never set, a      *)
(* generateAllImages call that has started resolves: no item waits in the  *)
(* gate forever, because every slot taken is released and every timestamp  *)
(* leaves the 60-second window.                                            *)
(***************************************************************************)
C35_EventuallyResolves ==
    /\ (sess[1].status \in {"running", "pause"}) ~> (sess[1].status = "resolved")
    /\ \A x \in Items :
          (task[1][x].pc = "gate") ~> (task[1][x].pc # "gate")

\* item 2 waits in the gate of the second chunk: the window holds
\* maxPerMinute admissions and no slot is taken
C35_Witness ==
    /\ sess[1].status = "running"
    /\ ~sess[1].aborted
    /\ task[1][2].pc = "gate"
    /\ rateLimiter.activeCount = 0
    /\ windowAdmits = maxPerMinute

(***************************************************************************)
(* C36: a cache write that fails for one symbol empties the cache: the     *)
(* catch of cacheImage clears the cached artwork of every symbol, so what  *)
(* was cached earlier in the session is no longer returned by              *)
(* getCachedImage (the images stay in the call's result slots); a write    *)
(* that succeeds changes the entry of its own symbol only, and nothing     *)
(* else a generateAllImages call does touches the cache.                   *)
(***************************************************************************)
\* the map callback of item x stores its image in this step
Stores(x) == task[1][x].pc = "call" /\ task'[1][x].pc = "ok"

C36_FailedWriteClearsCache ==
    [][/\ \A x \in Items :
             Stores(x) =>
                IF task'[1][x].quota
                THEN /\ \A y \in Items : cache'[y] = Null
                     /\ sess'[1].images[x] # Null
                     /\ \A y \in 0..(sess[1].n - 1) :
                           y # x => sess'[1].images[y] = sess[1].images[y]
                ELSE cache' = [cache EXCEPT ![x] = sess'[1].images[x]]
       /\ (\A x \in Items : ~Stores(x)) => cache' = cache]_vars

\* as stated: the failed write of one symbol leaves the cached artwork of
\* every other symbol as it is
C36_AsStated ==
    [][\A x \in Items :
          (Stores(x) /\ task'[1][x].quota) =>
              \A y \in Items : y # x => cache'[y] = cache[y]]_vars

\* items 0 and 1 were cached, then the write for item 2 failed: the cache
\* is empty and the three images are in their slots
C36_Witness ==
    /\ sess[1].n = 3
    /\ task[1][0].pc = "ok" /\ ~task[1][0].quota
    /\ task[1][1].pc = "ok" /\ ~task[1][1].quota
    /\ task[1][2].pc = "ok" /\ task[1][2].quota
    /\ \A y \in Items : cache[y] = Null
    /\ \A y \in 0..2 : sess[1].images[y] # Null


\* ---------------------------------------------------------------------
\* C37: a click on a step indicator moves currentStep only to a step
\* strictly below the current one, a click on the current or a later step
\* changes nothing, and currentStep is one of 1..4 in every state.
C37_StepClickOnlyGoesBack ==
    /\ state.currentStep \in 1..4
    /\ uiPc = "ready" =>
         \A stepNum \in 1..4 :
            LET w == StepClicked(World, stepNum)
            IN  IF stepNum < state.currentStep
                THEN w.state.currentStep = stepNum
                ELSE w = World

\* the first step is shown again with the artwork of an earlier
\* generation still in the state: a click has led back
C37_Witness ==
    /\ uiPc = "ready"
    /\ state.currentStep = 1
    /\ SomeImage(state.images)


\* ---------------------------------------------------------------------
\* C38: a step click that leaves step 3 sets the signal of the generation
\* whose controller is stored and clears the stored controller, and in
\* every state that shows a step other than 3 each generateAllImages call
\* still pending has its signal set, so that it starts no further chunk.
\* The second part fails once the call of a session left earlier settles
\* while a later session is at step 3.
LeavesStepThreeByClick ==
    /\ state.currentStep = 3
    /\ state'.currentStep # 3
    /\ \E stepNum \in 1..4 : handleStepClick(stepNum)

Dispatching(g) ==
    genCalls[g].status = "pending" /\ ~genCalls[g].aborted

C38_ClickAborts ==
    [][LeavesStepThreeByClick =>
         /\ state'.abortController = NoController
         /\ LET g == state.abortController
            IN  g # NoController /\ genCalls'[g].status = "pending"
                   => genCalls'[g].aborted]_vars

C38_NoDispatchOffStepThree ==
    (state.currentStep # 3) => \A g \in Generations : ~Dispatching(g)

FreshPage(w) == [w EXCEPT !.state = InitState]

C39_LoadAfterSave ==
    uiPc = "ready" =>
        LET loaded == loadState(FreshPage(saveState(World)))
            st == loaded.world.state
        IN  /\ st.currentStep = state.currentStep
            /\ st.symbolCount = state.symbolCount
            /\ st.order = state.order
            /\ st.descriptions = state.descriptions
            /\ st.images =
                 IF \E i \in 1..Len(state.images) : state.images[i] # Null
                 THEN [i \in 1..state.symbolCount |-> imageCache[i - 1]]
                 ELSE InitState.images
            /\ loaded.restored <=> \/ state.currentStep > 1
                                   \/ Len(state.descriptions) > 0

\* a reloaded page has restored a session whose artwork came back from
\* the cache
C39_Witness ==
    /\ uiPc = "ready"
    /\ toasts = <<[message |-> "Progress restored", type |-> "success"]>>
    /\ SomeImage(state.images)
    /\ localStorage.present /\ localStorage.hasImages

=============================================================================
